---- MODULE Spec2Model ----
(***************************************************************************)
(* A model of the leadr leaderboard backend: the game and score            *)
(* repositories (src/src/db/repository.rs), the keyset pagination helpers  *)
(* and the cursor codec (src/src/utils/pagination.rs).                     *)
(*                                                                         *)
(* Text is modelled as a sequence of ASCII codes, so that the textual      *)
(* forms the code produces (decimal numbers, RFC 3339 timestamps, the      *)
(* store's own timestamp text, JSON, base64) are compared the way the      *)
(* store and the codec compare them.                                       *)
(***************************************************************************)
EXTENDS Integers, Sequences, FiniteSets, TLC

VARIABLES games, scores, clock, resp, trav, pure, removed

vars == <<games, scores, clock, resp, trav, pure, removed>>

(***************************************************************************)
(* Bounds of the model.                                                    *)
(***************************************************************************)
\* rows the game table may hold
MaxGames == 3
\* rows the score table may hold
MaxScores == 3
\* the last instant the clock reaches
MaxTime == 2
\* instants per calendar day: instants 0 .. TicksPerDay-1 are the same day
TicksPerDay == 2
\* rows the two tables may hold together in the life of the store
MaxLiveRows == 2
\* the last instant the clock of the store's life reaches
MaxLiveTime == 1

\* the largest of the consecutive limits given to get_limit
MaxLimitInput == 130
\* the longest text of a cursor field, in characters
MaxTextLen == 2

\* the largest page size a traversal asks for
MaxLimit == 2
\* page requests after which a traversal is no longer followed
MaxPages == 4

(***************************************************************************)
(* Program constants.                                                      *)
(***************************************************************************)
DEFAULT_PAGE_SIZE == 25
MAX_PAGE_SIZE == 100

(***************************************************************************)
(* Option values.                                                          *)
(***************************************************************************)
None == [some |-> FALSE]
Some(x) == [some |-> TRUE, val |-> x]

\* SQL NULL in a timestamp column
NULL == -1

(***************************************************************************)
(* Text helpers.                                                           *)
(***************************************************************************)
\* memcmp-style comparison of two texts: -1, 0 or 1
RECURSIVE TextCmpFrom(_, _, _)
TextCmpFrom(a, b, i) ==
    IF i > Len(a) /\ i > Len(b) THEN 0
    ELSE IF i > Len(a) THEN -1
    ELSE IF i > Len(b) THEN 1
    ELSE IF a[i] < b[i] THEN -1
    ELSE IF a[i] > b[i] THEN 1
    ELSE TextCmpFrom(a, b, i + 1)

TextCmp(a, b) == TextCmpFrom(a, b, 1)

IsDigit(c) == c >= 48 /\ c <= 57

RECURSIVE NatToText(_)
NatToText(n) ==
    IF n < 10 THEN <<48 + n>> ELSE NatToText(n \div 10) \o <<48 + (n % 10)>>

\* Display of an integer (i64, and f64 holding a whole number): "-5", "10"
IntToText(n) == IF n < 0 THEN <<45>> \o NatToText(0 - n) ELSE NatToText(n)

AllDigits(t) == Len(t) > 0 /\ \A i \in 1..Len(t) : IsDigit(t[i])

RECURSIVE DigitsToNat(_)
DigitsToNat(t) ==
    IF Len(t) = 0 THEN 0
    ELSE 10 * DigitsToNat(SubSeq(t, 1, Len(t) - 1)) + (t[Len(t)] - 48)

\* a text that reads as a whole number, with an optional sign
LooksNumeric(t) ==
    \/ AllDigits(t)
    \/ Len(t) > 1 /\ t[1] = 45 /\ AllDigits(Tail(t))

NumericValue(t) ==
    IF t[1] = 45 THEN 0 - DigitsToNat(Tail(t)) ELSE DigitsToNat(t)

TwoDigits(n) == <<48 + (n \div 10), 48 + (n % 10)>>

(***************************************************************************)
(* Timestamps.  An instant t is day t \div TicksPerDay, second             *)
(* t % TicksPerDay of that day, in January 2024 and in the first minute of *)
(* the day; fractions of a second are not modelled.                        *)
(***************************************************************************)
DayOf(t) == t \div TicksPerDay
SecOf(t) == t % TicksPerDay

DateText(t) == <<50, 48, 50, 52, 45, 48, 49, 45>> \o TwoDigits(1 + DayOf(t))
ClockText(t) == <<48, 48, 58, 48, 48, 58>> \o TwoDigits(SecOf(t))

\* the text sqlx stores for a bound NaiveDateTime: "%F %T%.f",
\* "2024-01-01 00:00:01"
NaiveFormat(t) == DateText(t) \o <<32>> \o ClockText(t)

\* DateTime<Utc>::to_rfc3339: "2024-01-01T00:00:01+00:00"
ToRfc3339(t) == DateText(t) \o <<84>> \o ClockText(t) \o <<43, 48, 48, 58, 48, 48>>

\* chrono::DateTime::parse_from_rfc3339 followed by naive_utc, on the texts
\* of the modelled calendar; offset "+00:00" or "Z"
ParseFromRfc3339(txt) ==
    LET offsetOk ==
            \/ Len(txt) = 25 /\ SubSeq(txt, 20, 25) = <<43, 48, 48, 58, 48, 48>>
            \/ Len(txt) = 20 /\ txt[20] = 90
        shapeOk ==
            /\ offsetOk
            /\ SubSeq(txt, 1, 8) = <<50, 48, 50, 52, 45, 48, 49, 45>>
            /\ AllDigits(SubSeq(txt, 9, 10))
            /\ txt[11] = 84
            /\ SubSeq(txt, 12, 17) = <<48, 48, 58, 48, 48, 58>>
            /\ AllDigits(SubSeq(txt, 18, 19))
    IN  IF ~shapeOk THEN [ok |-> FALSE]
        ELSE LET d == DigitsToNat(SubSeq(txt, 9, 10))
                 s == DigitsToNat(SubSeq(txt, 18, 19))
             IN  IF d >= 1 /\ d <= 31 /\ s < TicksPerDay
                 THEN [ok |-> TRUE, val |-> (d - 1) * TicksPerDay + s]
                 ELSE [ok |-> FALSE]

\* f64::to_string of a score_val; the modelled values are whole numbers
F64ToString(v) == IntToText(v)

(***************************************************************************)
(* Comparisons as the store makes them.                                    *)
(***************************************************************************)
IntCmp(a, b) == IF a < b THEN -1 ELSE IF a > b THEN 1 ELSE 0

\* a REAL column against a bound TEXT parameter: the parameter takes NUMERIC
\* affinity; a text that is no number stays TEXT, and every number sorts
\* before every text
SqlCmpRealText(colVal, paramText) ==
    IF LooksNumeric(paramText) THEN IntCmp(colVal, NumericValue(paramText)) ELSE -1

\* a column holding text against a bound TEXT parameter: memcmp
SqlCmpTextText(colText, paramText) == TextCmp(colText, paramText)

(***************************************************************************)
(* JSON, as serde_json writes and reads the two cursor records.  The       *)
(* reader covers objects without white space whose values are strings or   *)
(* whole numbers, and the escapes \" \\ \n.                                *)
(***************************************************************************)
\* an escaping that leaves the backslash as it is
RECURSIVE JsonEscape_BackslashKept(_)
JsonEscape_BackslashKept(s) ==
    IF Len(s) = 0 THEN <<>>
    ELSE LET c == Head(s)
             e == IF c = 34 THEN <<92, 34>>
                  ELSE IF c = 10 THEN <<92, 110>>
                  ELSE <<c>>
         IN  e \o JsonEscape_BackslashKept(Tail(s))

RECURSIVE JsonEscape(_)
JsonEscape(s) ==
    IF Len(s) = 0 THEN <<>>
    ELSE LET c == Head(s)
             e == IF c = 34 THEN <<92, 34>>
                  ELSE IF c = 92 THEN <<92, 92>>
                  ELSE IF c = 10 THEN <<92, 110>>
                  ELSE <<c>>
         IN  e \o JsonEscape(Tail(s))

JsonString(s) == <<34>> \o JsonEscape(s) \o <<34>>

Fail == [ok |-> FALSE]

\* the string whose opening quote is before position i
RECURSIVE JsonReadString(_, _, _)
JsonReadString(b, i, acc) ==
    IF i > Len(b) THEN Fail
    ELSE IF b[i] = 34 THEN [ok |-> TRUE, val |-> acc, pos |-> i + 1]
    ELSE IF b[i] = 92 THEN
        IF i + 1 > Len(b) THEN Fail
        ELSE IF b[i + 1] = 34 THEN JsonReadString(b, i + 2, Append(acc, 34))
        ELSE IF b[i + 1] = 92 THEN JsonReadString(b, i + 2, Append(acc, 92))
        ELSE IF b[i + 1] = 110 THEN JsonReadString(b, i + 2, Append(acc, 10))
        ELSE Fail
    ELSE IF b[i] < 32 THEN Fail
    ELSE JsonReadString(b, i + 1, Append(acc, b[i]))

\* the end of the run of digits that starts at position i
RECURSIVE DigitsEnd(_, _)
DigitsEnd(b, i) == IF i <= Len(b) /\ IsDigit(b[i]) THEN DigitsEnd(b, i + 1) ELSE i

JsonReadInt(b, i) ==
    LET neg == i <= Len(b) /\ b[i] = 45
        s == IF neg THEN i + 1 ELSE i
        e == DigitsEnd(b, s)
    IN  IF e = s THEN Fail
        ELSE IF e - s > 1 /\ b[s] = 48 THEN Fail
        ELSE IF e <= Len(b) /\ b[e] \in {46, 69, 101} THEN Fail
        ELSE LET n == DigitsToNat(SubSeq(b, s, e - 1))
             IN  [ok |-> TRUE, val |-> IF neg THEN 0 - n ELSE n, pos |-> e]

\* a value read as r, of the given kind
JsonValueOf(kind, r) ==
    IF r.ok THEN [ok |-> TRUE, kind |-> kind, val |-> r.val, pos |-> r.pos] ELSE Fail

JsonReadValue(b, i) ==
    IF i > Len(b) THEN Fail
    ELSE IF b[i] = 34 THEN JsonValueOf("string", JsonReadString(b, i + 1, <<>>))
    ELSE JsonValueOf("int", JsonReadInt(b, i))

\* the members of an object, from the key that starts at position i
RECURSIVE JsonReadMembers(_, _, _)

\* after the members m, the last of them the value v: a comma and the next
\* member, or the closing brace at the end of the text
JsonAfterValue(b, m, v) ==
    IF v.pos > Len(b) THEN Fail
    ELSE IF b[v.pos] = 44 THEN JsonReadMembers(b, v.pos + 1, m)
    ELSE IF b[v.pos] = 125 /\ v.pos = Len(b) THEN [ok |-> TRUE, val |-> m]
    ELSE Fail

\* the member of key k and value v
JsonMember(b, acc, k, v) ==
    IF ~v.ok THEN Fail
    ELSE JsonAfterValue(b, Append(acc, [key |-> k.val, kind |-> v.kind, val |-> v.val]), v)

\* after the key k: a colon and the value
JsonAfterKey(b, acc, k) ==
    IF ~k.ok THEN Fail
    ELSE IF k.pos > Len(b) \/ b[k.pos] # 58 THEN Fail
    ELSE JsonMember(b, acc, k, JsonReadValue(b, k.pos + 1))

JsonReadMembers(b, i, acc) ==
    IF i > Len(b) \/ b[i] # 34 THEN Fail
    ELSE JsonAfterKey(b, acc, JsonReadString(b, i + 1, <<>>))

JsonReadObject(b) ==
    IF Len(b) < 2 \/ b[1] # 123 THEN Fail
    ELSE IF b = <<123, 125>> THEN [ok |-> TRUE, val |-> <<>>]
    ELSE JsonReadMembers(b, 2, <<>>)

\* the members of object o named key
Members(o, key) == {i \in 1..Len(o) : o[i].key = key}

\* a derived Deserialize field: present once and of the field's type
FieldOk(o, key, kind) ==
    /\ Cardinality(Members(o, key)) = 1
    /\ \A i \in Members(o, key) : o[i].kind = kind

FieldVal(o, key) == o[CHOOSE i \in Members(o, key) : TRUE].val

(***************************************************************************)
(* Base64, URL-safe alphabet, no padding (URL_SAFE_NO_PAD).                *)
(***************************************************************************)
B64Char(i) ==
    IF i < 26 THEN 65 + i
    ELSE IF i < 52 THEN 97 + (i - 26)
    ELSE IF i < 62 THEN 48 + (i - 52)
    ELSE IF i = 62 THEN 45
    ELSE 95

\* the value of a symbol, -1 for a character outside the alphabet
B64Index(c) ==
    IF c >= 65 /\ c <= 90 THEN c - 65
    ELSE IF c >= 97 /\ c <= 122 THEN c - 97 + 26
    ELSE IF c >= 48 /\ c <= 57 THEN c - 48 + 52
    ELSE IF c = 45 THEN 62
    ELSE IF c = 95 THEN 63
    ELSE -1

RECURSIVE B64Encode(_)
B64Encode(b) ==
    IF Len(b) = 0 THEN <<>>
    ELSE IF Len(b) = 1 THEN
        <<B64Char(b[1] \div 4), B64Char((b[1] % 4) * 16)>>
    ELSE IF Len(b) = 2 THEN
        <<B64Char(b[1] \div 4),
          B64Char((b[1] % 4) * 16 + (b[2] \div 16)),
          B64Char((b[2] % 16) * 4)>>
    ELSE
        <<B64Char(b[1] \div 4),
          B64Char((b[1] % 4) * 16 + (b[2] \div 16)),
          B64Char((b[2] % 16) * 4 + (b[3] \div 64)),
          B64Char(b[3] % 64)>> \o B64Encode(SubSeq(b, 4, Len(b)))

\* the bytes of a run of symbol values whose length is not 1 modulo 4
RECURSIVE B64Bytes(_)
B64Bytes(v) ==
    IF Len(v) = 0 THEN <<>>
    ELSE IF Len(v) = 2 THEN <<v[1] * 4 + (v[2] \div 16)>>
    ELSE IF Len(v) = 3 THEN
        <<v[1] * 4 + (v[2] \div 16), (v[2] % 16) * 16 + (v[3] \div 4)>>
    ELSE
        <<v[1] * 4 + (v[2] \div 16),
          (v[2] % 16) * 16 + (v[3] \div 4),
          (v[3] % 4) * 64 + v[4]>> \o B64Bytes(SubSeq(v, 5, Len(v)))

\* Engine::decode: a character outside the alphabet (padding included), a
\* length of 1 modulo 4 and non-zero trailing bits are errors
B64Decode(t) ==
    LET v == [i \in 1..Len(t) |-> B64Index(t[i])]
        r == Len(t) % 4
    IN  IF \E i \in 1..Len(t) : v[i] = -1 THEN [ok |-> FALSE, err |-> "InvalidByte"]
        ELSE IF r = 1 THEN [ok |-> FALSE, err |-> "InvalidLength"]
        ELSE IF r = 2 /\ v[Len(t)] % 16 # 0 THEN [ok |-> FALSE, err |-> "InvalidLastSymbol"]
        ELSE IF r = 3 /\ v[Len(t)] % 4 # 0 THEN [ok |-> FALSE, err |-> "InvalidLastSymbol"]
        ELSE [ok |-> TRUE, val |-> B64Bytes(v)]

\* String::from_utf8 on ASCII and two-byte sequences
RECURSIVE Utf8Valid(_)
Utf8Valid(b) ==
    IF Len(b) = 0 THEN TRUE
    ELSE IF b[1] < 128 THEN Utf8Valid(Tail(b))
    ELSE IF b[1] >= 194 /\ b[1] <= 223 /\ Len(b) >= 2 /\ b[2] >= 128 /\ b[2] <= 191
         THEN Utf8Valid(SubSeq(b, 3, Len(b)))
    ELSE FALSE

(***************************************************************************)
(* The cursor codec.                                                       *)
(***************************************************************************)
GameCursor(hex_id, created_at) == [hex_id |-> hex_id, created_at |-> created_at]
ScoreCursor(id, sort_value) == [id |-> id, sort_value |-> sort_value]

\* serde_json::to_string of a GameCursor: {"hex_id":"..","created_at":".."}
GameCursorJson(c) ==
    <<123, 34, 104, 101, 120, 95, 105, 100, 34, 58>> \o JsonString(c.hex_id)
    \o <<44, 34, 99, 114, 101, 97, 116, 101, 100, 95, 97, 116, 34, 58>>
    \o JsonString(c.created_at) \o <<125>>

\* serde_json::to_string of a ScoreCursor: {"id":1,"sort_value":".."}
ScoreCursorJson(c) ==
    <<123, 34, 105, 100, 34, 58>> \o IntToText(c.id)
    \o <<44, 34, 115, 111, 114, 116, 95, 118, 97, 108, 117, 101, 34, 58>>
    \o JsonString(c.sort_value) \o <<125>>

encode_game_cursor(c) == B64Encode(GameCursorJson(c))

encode_score_cursor(c) == B64Encode(ScoreCursorJson(c))

\* serde_json::from_str::<GameCursor> on the object read
GameCursorOfJson(o) ==
    IF o.ok /\ FieldOk(o.val, <<104, 101, 120, 95, 105, 100>>, "string")
            /\ FieldOk(o.val, <<99, 114, 101, 97, 116, 101, 100, 95, 97, 116>>, "string")
    THEN [ok |-> TRUE,
          val |-> GameCursor(FieldVal(o.val, <<104, 101, 120, 95, 105, 100>>),
                             FieldVal(o.val, <<99, 114, 101, 97, 116, 101, 100, 95, 97, 116>>))]
    ELSE [ok |-> FALSE, err |-> "Failed to deserialize cursor"]

\* serde_json::from_str::<ScoreCursor> on the object read
ScoreCursorOfJson(o) ==
    IF o.ok /\ FieldOk(o.val, <<105, 100>>, "int")
            /\ FieldOk(o.val, <<115, 111, 114, 116, 95, 118, 97, 108, 117, 101>>, "string")
    THEN [ok |-> TRUE,
          val |-> ScoreCursor(FieldVal(o.val, <<105, 100>>),
                              FieldVal(o.val, <<115, 111, 114, 116, 95, 118, 97, 108, 117, 101>>))]
    ELSE [ok |-> FALSE, err |-> "Failed to deserialize cursor"]

\* decode_game_cursor after URL_SAFE_NO_PAD.decode
GameCursorOfBytes(bytes) ==
    IF ~bytes.ok THEN [ok |-> FALSE, err |-> "Failed to decode cursor"]
    ELSE IF ~Utf8Valid(bytes.val) THEN [ok |-> FALSE, err |-> "Invalid UTF-8 in cursor"]
    ELSE GameCursorOfJson(JsonReadObject(bytes.val))

\* decode_score_cursor after URL_SAFE_NO_PAD.decode
ScoreCursorOfBytes(bytes) ==
    IF ~bytes.ok THEN [ok |-> FALSE, err |-> "Failed to decode cursor"]
    ELSE IF ~Utf8Valid(bytes.val) THEN [ok |-> FALSE, err |-> "Invalid UTF-8 in cursor"]
    ELSE ScoreCursorOfJson(JsonReadObject(bytes.val))

decode_game_cursor(token) == GameCursorOfBytes(B64Decode(token))

decode_score_cursor(token) == ScoreCursorOfBytes(B64Decode(token))

(***************************************************************************)
(* Pagination parameters and the page assembler                            *)
(* (src/src/utils/pagination.rs).                                          *)
(***************************************************************************)
PaginationParams(cursor, limit) == [cursor |-> cursor, limit |-> limit]

\* a get_limit that lets the limit 0 through
get_limit_ZeroKept(p) ==
    IF p.limit.some
    THEN IF p.limit.val >= 0 /\ p.limit.val <= MAX_PAGE_SIZE
         THEN p.limit.val
         ELSE MAX_PAGE_SIZE
    ELSE DEFAULT_PAGE_SIZE

\* PaginationParams::get_limit
get_limit(p) ==
    IF p.limit.some
    THEN IF p.limit.val > 0 /\ p.limit.val <= MAX_PAGE_SIZE
         THEN p.limit.val
         ELSE MAX_PAGE_SIZE
    ELSE DEFAULT_PAGE_SIZE

ScoreSortParams(sort_by, order) == [sort_by |-> sort_by, order |-> order]

\* ScoreSortParams::get_sort_field, default Score
get_sort_field(sp) == IF sp.sort_by.some THEN sp.sort_by.val ELSE "Score"

\* ScoreSortParams::get_sort_order, default Descending
get_sort_order(sp) == IF sp.order.some THEN sp.order.val ELSE "Descending"

\* the column of ScoreSortParams::to_sql_order_clause
order_clause_field(sp) ==
    CASE get_sort_field(sp) = "Score" -> "score_val"
      [] get_sort_field(sp) = "Date" -> "submitted_at"
      [] get_sort_field(sp) = "UserName" -> "user_name"

\* the direction of ScoreSortParams::to_sql_order_clause
order_clause_dir(sp) ==
    CASE get_sort_order(sp) = "Ascending" -> "ASC"
      [] get_sort_order(sp) = "Descending" -> "DESC"

\* ScoreSortParams::get_cursor_field
get_cursor_field(sp) ==
    CASE get_sort_field(sp) = "Score" -> "score_val"
      [] get_sort_field(sp) = "Date" -> "submitted_at"
      [] get_sort_field(sp) = "UserName" -> "user_name"

\* a response whose current_cursor is the cursor of the page that follows
PaginatedResponse_CursorRederived(data, has_more, next_cursor, current_cursor, page_size) ==
    [data |-> data,
     has_more |-> has_more,
     next_cursor |-> next_cursor,
     current_cursor |-> next_cursor,
     total_returned |-> Len(data),
     page_size |-> page_size]

\* PaginatedResponse::new
PaginatedResponse(data, has_more, next_cursor, current_cursor, page_size) ==
    [data |-> data,
     has_more |-> has_more,
     next_cursor |-> next_cursor,
     current_cursor |-> current_cursor,
     total_returned |-> Len(data),
     page_size |-> page_size]

\* a from_query_results that takes next_cursor from the probe row, the last
\* row fetched, instead of the last row kept
from_query_results_ProbeCursor(data, requested_limit, current_cursor, next_cursor_of) ==
    LET has_more == Len(data) > requested_limit
        kept == IF has_more THEN SubSeq(data, 1, Len(data) - 1) ELSE data
        next_cursor == IF has_more /\ Len(kept) > 0
                       THEN next_cursor_of[Len(data)]
                       ELSE None
    IN  PaginatedResponse(kept, has_more, next_cursor, current_cursor, requested_limit)

\* a from_query_results that keeps the probe row on the page
from_query_results_ProbeKept(data, requested_limit, current_cursor, next_cursor_of) ==
    LET has_more == Len(data) > requested_limit
        next_cursor == IF has_more /\ Len(data) > 0
                       THEN next_cursor_of[Len(data)]
                       ELSE None
    IN  PaginatedResponse(data, has_more, next_cursor, current_cursor, requested_limit)

\* PaginatedResponse::from_query_results; next_cursor_of[i] is the value of
\* the closure next_cursor_fn on data[i]
from_query_results(data, requested_limit, current_cursor, next_cursor_of) ==
    LET has_more == Len(data) > requested_limit
        kept == IF has_more THEN SubSeq(data, 1, Len(data) - 1) ELSE data
        next_cursor == IF has_more /\ Len(kept) > 0
                       THEN next_cursor_of[Len(kept)]
                       ELSE None
    IN  PaginatedResponse(kept, has_more, next_cursor, current_cursor, requested_limit)

\* GameCursor::from_game
GameCursor_from_game(game) == GameCursor(game.hex_id, ToRfc3339(game.created_at))

\* a from_score that takes the score for the sort value whatever the field
ScoreCursor_from_score_ScoreOnly(score, sort_field) ==
    ScoreCursor(score.id, F64ToString(score.score_val))

\* ScoreCursor::from_score
ScoreCursor_from_score(score, sort_field) ==
    LET sort_value ==
            CASE sort_field = "score_val" -> F64ToString(score.score_val)
              [] sort_field = "submitted_at" -> ToRfc3339(score.submitted_at)
              [] sort_field = "user_name" -> score.user_name
              [] OTHER -> F64ToString(score.score_val)
    IN  ScoreCursor(score.id, sort_value)

(***************************************************************************)
(* Query helpers: ORDER BY and LIMIT over a set of rows.                   *)
(***************************************************************************)
\* the rows of table t (a sequence indexed by row id) that satisfy P
Select(t, P(_)) == {t[i] : i \in {j \in 1..Len(t) : P(t[j])}}

\* the rows of S in the order Before, a strict total order on S
OrderBy(S, Before(_, _)) ==
    [i \in 1..Cardinality(S) |->
        CHOOSE r \in S : Cardinality({x \in S : Before(x, r)}) = i - 1]

Limit(rows, n) == SubSeq(rows, 1, IF Len(rows) < n THEN Len(rows) ELSE n)

(***************************************************************************)
(* Validation (src/src/models/game.rs, src/src/models/score.rs).           *)
(***************************************************************************)
IsLowerAlnum(c) == IsDigit(c) \/ (c >= 97 /\ c <= 122)

\* Game::validate_hex_id
validate_hex_id(h) == Len(h) = 6 /\ \A i \in 1..Len(h) : IsLowerAlnum(h[i])

\* str::trim(..).is_empty()
IsBlank(s) == \A i \in 1..Len(s) : s[i] \in {9, 10, 13, 32}

\* Game::validate_name
validate_name(n) == ~IsBlank(n) /\ Len(n) <= 255

\* Score::validate_user_name
validate_user_name(n) == ~IsBlank(n) /\ Len(n) <= 100

\* Score::validate_user_id
validate_user_id(n) == ~IsBlank(n) /\ Len(n) <= 255

\* str::parse::<f64>().unwrap_or(0.0) on the modelled score texts: whole
\* numbers parse, other words do not
ParseScoreOrZero(txt) == IF LooksNumeric(txt) THEN NumericValue(txt) ELSE 0

(***************************************************************************)
(* The store's own rules (the schema is not part of the modelled sources). *)
(***************************************************************************)
\* hex_id is unique among the games with deleted_at IS NULL
HexIdsUnique(gs) ==
    \A i, j \in 1..Len(gs) :
        (i # j /\ gs[i].deleted_at = NULL /\ gs[j].deleted_at = NULL)
            => gs[i].hex_id # gs[j].hex_id

\* the soft delete of a game hides the scores that carry its hex_id from
\* reads, without touching the score rows
CascadeHidden(gs, hex_id) ==
    \E i \in 1..Len(gs) : gs[i].hex_id = hex_id /\ gs[i].deleted_at # NULL

(***************************************************************************)
(* GameRepository (src/src/db/repository.rs).  Each operation yields its   *)
(* result and the game table after it.                                     *)
(***************************************************************************)
Result(status, data, table) == [status |-> status, data |-> data, table |-> table]

NoData == <<>>

GameVisible(g) == g.deleted_at = NULL

\* GameRepository::create; hex_id is the value generate_hex_id drew
game_create(gs, name, description, hex_id, now) ==
    IF ~validate_name(name) THEN Result("ValidationError", NoData, gs)
    ELSE LET row == [id |-> Len(gs) + 1,
                     hex_id |-> hex_id,
                     name |-> name,
                     description |-> description,
                     created_at |-> now,
                     updated_at |-> now,
                     deleted_at |-> NULL]
             after == Append(gs, row)
         IN  IF HexIdsUnique(after) THEN Result("Ok", row, after)
             ELSE Result("Database", NoData, gs)

\* fetch_optional: the first row of the result in row order, if any
FirstOf(S) == CHOOSE r \in S : \A x \in S : r.id <= x.id

\* GameRepository::get_by_hex_id
game_get_by_hex_id(gs, hex_id) ==
    IF ~validate_hex_id(hex_id) THEN Result("InvalidParameter", NoData, gs)
    ELSE LET found == Select(gs, LAMBDA g : g.hex_id = hex_id /\ g.deleted_at = NULL)
         IN  IF found = {} THEN Result("NotFound", NoData, gs)
             ELSE Result("Ok", FirstOf(found), gs)

\* a get_by_id without the filter deleted_at IS NULL
game_get_by_id_AnyRow(gs, id) ==
    LET found == Select(gs, LAMBDA g : g.id = id)
    IN  IF found = {} THEN Result("NotFound", NoData, gs)
        ELSE Result("Ok", FirstOf(found), gs)

\* GameRepository::get_by_id
game_get_by_id(gs, id) ==
    LET found == Select(gs, LAMBDA g : g.id = id /\ g.deleted_at = NULL)
    IN  IF found = {} THEN Result("NotFound", NoData, gs)
        ELSE Result("Ok", FirstOf(found), gs)

\* ORDER BY created_at DESC, hex_id DESC
GameOrderBefore(x, y) ==
    LET c == SqlCmpTextText(NaiveFormat(x.created_at), NaiveFormat(y.created_at))
    IN  c = 1 \/ (c = 0 /\ TextCmp(x.hex_id, y.hex_id) = 1)

\* a keyset predicate on created_at alone, without the hex_id tie-break:
\* games created in the instant of the cursor row are skipped
GameKeysetAfter_NoTieBreak(g, cursor_created_at, cursor_hex_id) ==
    SqlCmpTextText(NaiveFormat(g.created_at), NaiveFormat(cursor_created_at)) = -1

\* (created_at, hex_id) < (?1, ?2)
GameKeysetAfter(g, cursor_created_at, cursor_hex_id) ==
    LET c == SqlCmpTextText(NaiveFormat(g.created_at), NaiveFormat(cursor_created_at))
    IN  c = -1 \/ (c = 0 /\ TextCmp(g.hex_id, cursor_hex_id) = -1)

\* the closure of GameRepository::list on each row of a page
GameNextCursors(page) ==
    [i \in 1..Len(page) |-> Some(encode_game_cursor(GameCursor_from_game(page[i])))]

\* the end of GameRepository::list: the rows fetched become the response
GamePage(gs, pagination, page) ==
    Result("Ok",
           from_query_results(page, get_limit(pagination), pagination.cursor,
                              GameNextCursors(page)),
           gs)

\* a list that remembers, on the server, the rows it has handed out and
\* leaves them out of the pages that follow
GameRowsFetched_Session(gs, pagination, rows) ==
    GamePage(gs, pagination,
             Limit(OrderBy({r \in rows : \A i \in 1..Len(trav.seen) : trav.seen[i] # r.id},
                           GameOrderBefore),
                   get_limit(pagination) + 1))

\* the rows of the query of GameRepository::list, the keyset predicate apart
GameRowsFetched(gs, pagination, rows) ==
    GamePage(gs, pagination, Limit(OrderBy(rows, GameOrderBefore), get_limit(pagination) + 1))

\* GameRepository::list with the cursor's created_at parsed
GameListFrom(gs, pagination, cursor, cursor_datetime) ==
    IF ~cursor_datetime.ok THEN Result("ValidationError", <<"Invalid cursor date">>, gs)
    ELSE GameRowsFetched(gs, pagination,
                         Select(gs, LAMBDA g :
                             /\ g.deleted_at = NULL
                             /\ GameKeysetAfter(g, cursor_datetime.val, cursor.val.hex_id)))

\* a list that takes a cursor it cannot decode for no cursor
GameListAfter_CursorDropped(gs, pagination, cursor) ==
    IF ~cursor.ok
    THEN GameRowsFetched(gs, pagination, Select(gs, LAMBDA g : g.deleted_at = NULL))
    ELSE GameListFrom(gs, pagination, cursor, ParseFromRfc3339(cursor.val.created_at))

\* GameRepository::list with the cursor decoded
GameListAfter(gs, pagination, cursor) ==
    IF ~cursor.ok THEN Result("ValidationError", <<"Invalid cursor", cursor.err>>, gs)
    ELSE GameListFrom(gs, pagination, cursor, ParseFromRfc3339(cursor.val.created_at))

\* GameRepository::list
game_list(gs, pagination) ==
    IF pagination.cursor.some
    THEN GameListAfter(gs, pagination, decode_game_cursor(pagination.cursor.val))
    ELSE GameRowsFetched(gs, pagination, Select(gs, LAMBDA g : g.deleted_at = NULL))

\* COALESCE(?, column)
Coalesce(opt, old) == IF opt.some THEN opt.val ELSE old

\* an update that sets updated_at only when the request supplies a field
game_update_StampedOnChange(gs, hex_id, name, description, now) ==
    IF ~validate_hex_id(hex_id) THEN Result("InvalidParameter", NoData, gs)
    ELSE IF name.some /\ ~validate_name(name.val) THEN Result("ValidationError", NoData, gs)
    ELSE LET hit(g) == g.hex_id = hex_id /\ g.deleted_at = NULL
             after == [i \in 1..Len(gs) |->
                          IF hit(gs[i])
                          THEN [gs[i] EXCEPT !.name = Coalesce(name, @),
                                             !.description =
                                                 IF description.some THEN description ELSE @,
                                             !.updated_at =
                                                 IF name.some \/ description.some
                                                 THEN now ELSE @]
                          ELSE gs[i]]
             found == Select(after, LAMBDA g : hit(gs[g.id]))
         IN  IF found = {} THEN Result("NotFound", NoData, gs)
             ELSE Result("Ok", FirstOf(found), after)

\* GameRepository::update
game_update(gs, hex_id, name, description, now) ==
    IF ~validate_hex_id(hex_id) THEN Result("InvalidParameter", NoData, gs)
    ELSE IF name.some /\ ~validate_name(name.val) THEN Result("ValidationError", NoData, gs)
    ELSE LET hit(g) == g.hex_id = hex_id /\ g.deleted_at = NULL
             after == [i \in 1..Len(gs) |->
                          IF hit(gs[i])
                          THEN [gs[i] EXCEPT !.name = Coalesce(name, @),
                                             !.description =
                                                 IF description.some THEN description ELSE @,
                                             !.updated_at = now]
                          ELSE gs[i]]
             found == Select(after, LAMBDA g : hit(gs[g.id]))
         IN  IF found = {} THEN Result("NotFound", NoData, gs)
             ELSE Result("Ok", FirstOf(found), after)

\* a soft_delete that reports success without marking the row
game_soft_delete_Unmarked(gs, hex_id, now) ==
    IF ~validate_hex_id(hex_id) THEN Result("InvalidParameter", NoData, gs)
    ELSE LET hit(g) == g.hex_id = hex_id /\ g.deleted_at = NULL
             rows_affected == Cardinality({i \in 1..Len(gs) : hit(gs[i])})
         IN  IF rows_affected = 0 THEN Result("NotFound", NoData, gs)
             ELSE Result("Ok", NoData, gs)

\* GameRepository::soft_delete
game_soft_delete(gs, hex_id, now) ==
    IF ~validate_hex_id(hex_id) THEN Result("InvalidParameter", NoData, gs)
    ELSE LET hit(g) == g.hex_id = hex_id /\ g.deleted_at = NULL
             after == [i \in 1..Len(gs) |->
                          IF hit(gs[i])
                          THEN [gs[i] EXCEPT !.deleted_at = now, !.updated_at = now]
                          ELSE gs[i]]
             rows_affected == Cardinality({i \in 1..Len(gs) : hit(gs[i])})
         IN  IF rows_affected = 0 THEN Result("NotFound", NoData, gs)
             ELSE Result("Ok", NoData, after)

\* a restore on a store that does not keep hex_id unique among visible games
game_restore_Unguarded(gs, hex_id, now) ==
    IF ~validate_hex_id(hex_id) THEN Result("InvalidParameter", NoData, gs)
    ELSE LET hit(g) == g.hex_id = hex_id /\ g.deleted_at # NULL
             after == [i \in 1..Len(gs) |->
                          IF hit(gs[i])
                          THEN [gs[i] EXCEPT !.deleted_at = NULL, !.updated_at = now]
                          ELSE gs[i]]
             found == Select(after, LAMBDA g : hit(gs[g.id]))
         IN  IF found = {} THEN Result("NotFound", NoData, gs)
             ELSE Result("Ok", FirstOf(found), after)

\* a restore without the condition deleted_at IS NOT NULL
game_restore_AnyRow(gs, hex_id, now) ==
    IF ~validate_hex_id(hex_id) THEN Result("InvalidParameter", NoData, gs)
    ELSE LET hit(g) == g.hex_id = hex_id
             after == [i \in 1..Len(gs) |->
                          IF hit(gs[i])
                          THEN [gs[i] EXCEPT !.deleted_at = NULL, !.updated_at = now]
                          ELSE gs[i]]
             found == Select(after, LAMBDA g : hit(gs[g.id]))
         IN  IF found = {} THEN Result("NotFound", NoData, gs)
             ELSE IF ~HexIdsUnique(after) THEN Result("Database", NoData, gs)
             ELSE Result("Ok", FirstOf(found), after)

\* GameRepository::restore
game_restore(gs, hex_id, now) ==
    IF ~validate_hex_id(hex_id) THEN Result("InvalidParameter", NoData, gs)
    ELSE LET hit(g) == g.hex_id = hex_id /\ g.deleted_at # NULL
             after == [i \in 1..Len(gs) |->
                          IF hit(gs[i])
                          THEN [gs[i] EXCEPT !.deleted_at = NULL, !.updated_at = now]
                          ELSE gs[i]]
             found == Select(after, LAMBDA g : hit(gs[g.id]))
         IN  IF found = {} THEN Result("NotFound", NoData, gs)
             ELSE IF ~HexIdsUnique(after) THEN Result("Database", NoData, gs)
             ELSE Result("Ok", FirstOf(found), after)

(***************************************************************************)
(* ScoreRepository (src/src/db/repository.rs).                             *)
(***************************************************************************)
\* the input of ScoreRepository::create
CreateScore(game_hex_id, score, score_val, user_name, user_id, extra) ==
    [game_hex_id |-> game_hex_id, score |-> score, score_val |-> score_val,
     user_name |-> user_name, user_id |-> user_id, extra |-> extra]

\* the input of ScoreRepository::update
UpdateScore(score, score_val, user_name, user_id, extra) ==
    [score |-> score, score_val |-> score_val, user_name |-> user_name,
     user_id |-> user_id, extra |-> extra]

\* ScoreRepository::create
score_create(ss, create_data, now) ==
    IF ~validate_user_name(create_data.user_name) THEN Result("ValidationError", NoData, ss)
    ELSE IF ~validate_user_id(create_data.user_id) THEN Result("ValidationError", NoData, ss)
    ELSE LET score_val == IF create_data.score_val.some
                          THEN create_data.score_val.val
                          ELSE ParseScoreOrZero(create_data.score)
             row == [id |-> Len(ss) + 1,
                     game_hex_id |-> create_data.game_hex_id,
                     score |-> create_data.score,
                     score_val |-> score_val,
                     user_name |-> create_data.user_name,
                     user_id |-> create_data.user_id,
                     extra |-> create_data.extra,
                     submitted_at |-> now,
                     deleted_at |-> NULL]
         IN  Result("Ok", row, Append(ss, row))

\* a score row that reads see: its own deleted_at is NULL and no soft-deleted
\* game hides it
ScoreReadable(gs, s) == s.deleted_at = NULL /\ ~CascadeHidden(gs, s.game_hex_id)

\* ScoreRepository::get_by_id
score_get_by_id(ss, gs, id) ==
    LET found == Select(ss, LAMBDA s : s.id = id /\ ScoreReadable(gs, s))
    IN  IF found = {} THEN Result("NotFound", NoData, ss)
        ELSE Result("Ok", FirstOf(found), ss)

\* a keyset predicate that looks for greater values whatever the direction
comparison_op_AlwaysGreater(sort_params) == ">"

\* the comparison operator of the keyset predicate
comparison_op(sort_params) ==
    CASE get_sort_order(sort_params) = "Ascending" -> ">"
      [] get_sort_order(sort_params) = "Descending" -> "<"

\* {sort_field} against the bound text ?2, as the store compares them
SortFieldCmp(s, sort_field, param) ==
    CASE sort_field = "score_val" -> SqlCmpRealText(s.score_val, param)
      [] sort_field = "submitted_at" -> SqlCmpTextText(NaiveFormat(s.submitted_at), param)
      [] sort_field = "user_name" -> SqlCmpTextText(s.user_name, param)

\* a keyset predicate whose id tie-break follows the direction of the primary
\* field instead of always ascending
ScoreKeysetAfter_IdFollowsOrder(s, sort_field, op, cursor) ==
    LET c == SortFieldCmp(s, sort_field, cursor.sort_value)
    IN  \/ (op = ">" /\ c = 1)
        \/ (op = "<" /\ c = -1)
        \/ (c = 0 /\ op = ">" /\ s.id > cursor.id)
        \/ (c = 0 /\ op = "<" /\ s.id < cursor.id)

\* a keyset predicate that takes every row of the cursor's value, the
\* cursor's own row included
ScoreKeysetAfter_TiesIncluded(s, sort_field, op, cursor) ==
    LET c == SortFieldCmp(s, sort_field, cursor.sort_value)
    IN  \/ (op = ">" /\ c = 1)
        \/ (op = "<" /\ c = -1)
        \/ c = 0

\* ({sort_field} {comparison_op} ?2 OR ({sort_field} = ?2 AND id > ?3))
ScoreKeysetAfter(s, sort_field, op, cursor) ==
    LET c == SortFieldCmp(s, sort_field, cursor.sort_value)
    IN  \/ (op = ">" /\ c = 1)
        \/ (op = "<" /\ c = -1)
        \/ (c = 0 /\ s.id > cursor.id)

\* two stored values of column field
ColumnCmp(x, y, field) ==
    CASE field = "score_val" -> IntCmp(x.score_val, y.score_val)
      [] field = "submitted_at" ->
            TextCmp(NaiveFormat(x.submitted_at), NaiveFormat(y.submitted_at))
      [] field = "user_name" -> TextCmp(x.user_name, y.user_name)

\* ORDER BY {order_clause}, id
ScoreOrderBefore(x, y, sort_params) ==
    LET c == ColumnCmp(x, y, order_clause_field(sort_params))
    IN  \/ (order_clause_dir(sort_params) = "ASC" /\ c = -1)
        \/ (order_clause_dir(sort_params) = "DESC" /\ c = 1)
        \/ (c = 0 /\ x.id < y.id)

\* the closure of ScoreRepository::list_by_game on each row of a page
ScoreNextCursors(page, sort_field) ==
    [i \in 1..Len(page) |->
        Some(encode_score_cursor(ScoreCursor_from_score(page[i], sort_field)))]

\* the end of ScoreRepository::list_by_game: the rows fetched become the
\* response
ScorePage(ss, pagination, sort_params, page) ==
    Result("Ok",
           from_query_results(page, get_limit(pagination), pagination.cursor,
                              ScoreNextCursors(page, get_cursor_field(sort_params))),
           ss)

\* the rows of the query of ScoreRepository::list_by_game, the keyset
\* predicate apart
ScoreRowsFetched(ss, pagination, sort_params, rows) ==
    ScorePage(ss, pagination, sort_params,
              Limit(OrderBy(rows, LAMBDA x, y : ScoreOrderBefore(x, y, sort_params)),
                    get_limit(pagination) + 1))

\* ScoreRepository::list_by_game with the cursor decoded
ScoreListAfter(ss, gs, game_hex_id, pagination, sort_params, cursor) ==
    IF ~cursor.ok THEN Result("ValidationError", <<"Invalid cursor", cursor.err>>, ss)
    ELSE ScoreRowsFetched(ss, pagination, sort_params,
                          Select(ss, LAMBDA s :
                              /\ ScoreReadable(gs, s)
                              /\ s.game_hex_id = game_hex_id
                              /\ ScoreKeysetAfter(s, get_cursor_field(sort_params),
                                                  comparison_op(sort_params),
                                                  cursor.val)))

\* ScoreRepository::list_by_game
score_list_by_game(ss, gs, game_hex_id, pagination, sort_params) ==
    IF ~validate_hex_id(game_hex_id) THEN Result("ValidationError", NoData, ss)
    ELSE IF pagination.cursor.some
    THEN ScoreListAfter(ss, gs, game_hex_id, pagination, sort_params,
                        decode_score_cursor(pagination.cursor.val))
    ELSE ScoreRowsFetched(ss, pagination, sort_params,
                          Select(ss, LAMBDA s :
                              ScoreReadable(gs, s) /\ s.game_hex_id = game_hex_id))

\* an update that binds score_val as the request gave it, and so keeps the
\* old score_val when only score is given
score_update_ValKept(ss, id, update_data) ==
    IF update_data.user_name.some /\ ~validate_user_name(update_data.user_name.val)
    THEN Result("ValidationError", NoData, ss)
    ELSE IF update_data.user_id.some /\ ~validate_user_id(update_data.user_id.val)
    THEN Result("ValidationError", NoData, ss)
    ELSE LET hit(s) == s.id = id /\ s.deleted_at = NULL
             after == [i \in 1..Len(ss) |->
                          IF hit(ss[i])
                          THEN [ss[i] EXCEPT !.score = Coalesce(update_data.score, @),
                                             !.score_val = Coalesce(update_data.score_val, @),
                                             !.user_name = Coalesce(update_data.user_name, @),
                                             !.user_id = Coalesce(update_data.user_id, @),
                                             !.extra = IF update_data.extra.some
                                                       THEN update_data.extra ELSE @]
                          ELSE ss[i]]
             found == Select(after, LAMBDA s : hit(ss[s.id]))
         IN  IF found = {} THEN Result("NotFound", NoData, ss)
             ELSE Result("Ok", FirstOf(found), after)

\* ScoreRepository::update
score_update(ss, id, update_data) ==
    IF update_data.user_name.some /\ ~validate_user_name(update_data.user_name.val)
    THEN Result("ValidationError", NoData, ss)
    ELSE IF update_data.user_id.some /\ ~validate_user_id(update_data.user_id.val)
    THEN Result("ValidationError", NoData, ss)
    ELSE LET score_val ==
                 IF update_data.score.some
                 THEN Some(IF update_data.score_val.some
                           THEN update_data.score_val.val
                           ELSE ParseScoreOrZero(update_data.score.val))
                 ELSE update_data.score_val
             hit(s) == s.id = id /\ s.deleted_at = NULL
             after == [i \in 1..Len(ss) |->
                          IF hit(ss[i])
                          THEN [ss[i] EXCEPT !.score = Coalesce(update_data.score, @),
                                             !.score_val = Coalesce(score_val, @),
                                             !.user_name = Coalesce(update_data.user_name, @),
                                             !.user_id = Coalesce(update_data.user_id, @),
                                             !.extra = IF update_data.extra.some
                                                       THEN update_data.extra ELSE @]
                          ELSE ss[i]]
             found == Select(after, LAMBDA s : hit(ss[s.id]))
         IN  IF found = {} THEN Result("NotFound", NoData, ss)
             ELSE Result("Ok", FirstOf(found), after)

\* a soft_delete that reports success without marking the row
score_soft_delete_Unmarked(ss, id, now) ==
    LET hit(s) == s.id = id /\ s.deleted_at = NULL
        rows_affected == Cardinality({i \in 1..Len(ss) : hit(ss[i])})
    IN  IF rows_affected = 0 THEN Result("NotFound", NoData, ss)
        ELSE Result("Ok", NoData, ss)

\* ScoreRepository::soft_delete
score_soft_delete(ss, id, now) ==
    LET hit(s) == s.id = id /\ s.deleted_at = NULL
        after == [i \in 1..Len(ss) |->
                     IF hit(ss[i]) THEN [ss[i] EXCEPT !.deleted_at = now] ELSE ss[i]]
        rows_affected == Cardinality({i \in 1..Len(ss) : hit(ss[i])})
    IN  IF rows_affected = 0 THEN Result("NotFound", NoData, ss)
        ELSE Result("Ok", NoData, after)

\* ScoreRepository::restore
score_restore(ss, id) ==
    LET hit(s) == s.id = id /\ s.deleted_at # NULL
        after == [i \in 1..Len(ss) |->
                     IF hit(ss[i]) THEN [ss[i] EXCEPT !.deleted_at = NULL] ELSE ss[i]]
        found == Select(after, LAMBDA s : hit(ss[s.id]))
    IN  IF found = {} THEN Result("NotFound", NoData, ss)
        ELSE Result("Ok", FirstOf(found), after)

(***************************************************************************)
(* Inputs of the model.                                                    *)
(***************************************************************************)
\* hex ids as Game::generate_hex_id draws them: "00000a", "00000b", "a00000"
HexIds == {<<48, 48, 48, 48, 48, 97>>, <<48, 48, 48, 48, 48, 98>>, <<97, 48, 48, 48, 48, 48>>}

\* the game whose scores are listed: "00000a"
HexA == <<48, 48, 48, 48, 48, 97>>
\* another game: "00000b"
HexB == <<48, 48, 48, 48, 48, 98>>

\* score requests of the traversal snapshots: score "5" by "bob" and score
\* "10" by "Al", so that the numeric and the textual order of the scores
\* differ; score_val is left to be parsed from score
ScoreInputs(hex) ==
    {CreateScore(hex, <<53>>, None, <<98, 111, 98>>, <<117, 49>>, None),
     CreateScore(hex, <<49, 48>>, None, <<65, 108>>, <<117, 50>>, None)}

SortSpecs ==
    {ScoreSortParams(f, o) :
        f \in {None, Some("Score"), Some("Date"), Some("UserName")},
        o \in {None, Some("Ascending"), Some("Descending")}}

\* limits of the traversals: 1 .. MaxLimit
PageLimits == {Some(k) : k \in 1..MaxLimit}

Times == 0..MaxTime

(***************************************************************************)
(* The store before a traversal: rows are created by the repositories at   *)
(* the instant of the clock, the newest row may be soft-deleted, and time   *)
(* passes.  Once the first page is asked for, the store is left alone: the *)
(* traversal runs on a fixed snapshot.                                     *)
(***************************************************************************)
\* score requests of the snapshots: the two of game "00000a" and one of
\* game "00000b"
SnapshotScoreInputs ==
    ScoreInputs(HexA) \cup {CreateScore(HexB, <<53>>, None, <<98, 111, 98>>, <<117, 49>>, None)}

(***************************************************************************)
(* A client that walks the pages of one list: the first request carries no *)
(* cursor, each later one the next_cursor of the page before.              *)
(***************************************************************************)
NoPage == PaginatedResponse(<<>>, FALSE, None, None, 0)

\* start is the number of score rows the store held when the first page was
\* asked for
IdleTrav ==
    [phase |-> "idle", kind |-> "none", hex |-> <<>>,
     sort |-> ScoreSortParams(None, None), limit |-> None,
     request |-> None, page |-> NoPage, seen |-> <<>>, pages |-> 0, start |-> 0]

Ids(rows) == [i \in 1..Len(rows) |-> rows[i].id]

\* the traversal after the answer r to the request with cursor c
AfterPage(tv, c, r) ==
    IF r.status = "Ok"
    THEN [tv EXCEPT !.phase = IF r.data.has_more THEN "paging" ELSE "done",
                    !.request = c,
                    !.page = r.data,
                    !.seen = @ \o Ids(r.data.data),
                    !.pages = @ + 1]
    ELSE [tv EXCEPT !.phase = "failed", !.request = c, !.pages = @ + 1]

\* GET /scores without a cursor
ScoreListFirst(hex, sort, limit) ==
    /\ trav.phase = "idle"
    /\ trav' = AfterPage([IdleTrav EXCEPT !.kind = "scores", !.hex = hex,
                                          !.sort = sort, !.limit = limit,
                                          !.start = Len(scores)],
                          None,
                          score_list_by_game(scores, games, hex,
                                             PaginationParams(None, limit), sort))
    /\ UNCHANGED <<games, scores, clock, resp, pure, removed>>

\* GET /scores with the next_cursor of the page before
ScoreListNext ==
    /\ trav.phase = "paging"
    /\ trav.kind = "scores"
    /\ trav.pages < MaxPages
    /\ trav' = AfterPage(trav, trav.page.next_cursor,
                          score_list_by_game(scores, games, trav.hex,
                                             PaginationParams(trav.page.next_cursor,
                                                              trav.limit),
                                             trav.sort))
    /\ UNCHANGED <<games, scores, clock, resp, pure, removed>>

NoResp == [op |-> "none", arg |-> NoData, status |-> "none", data |-> NoData]

\* no row has been soft-deleted or restored
NoneRemoved == [games |-> {}, scores |-> {}, games_back |-> {}, scores_back |-> {}]

\* the store before any call
Init ==
    /\ games = <<>>
    /\ scores = <<>>
    /\ clock = 0
    /\ resp = NoResp
    /\ trav = IdleTrav
    /\ pure = NoData
    /\ removed = NoneRemoved

\* time passes before the traversal
SnapshotTick ==
    /\ trav.phase = "idle"
    /\ clock < MaxTime
    /\ clock' = clock + 1
    /\ UNCHANGED <<games, scores, resp, trav, pure, removed>>

\* ScoreRepository::create before the traversal
SnapshotScoreCreate(create_data) ==
    /\ trav.phase = "idle"
    /\ Len(scores) < MaxScores
    /\ scores' = score_create(scores, create_data, clock).table
    /\ UNCHANGED <<games, clock, resp, trav, pure, removed>>

\* ScoreRepository::soft_delete of the newest score before the traversal
SnapshotScoreSoftDelete ==
    /\ trav.phase = "idle"
    /\ Len(scores) > 0
    /\ scores[Len(scores)].deleted_at = NULL
    /\ scores' = score_soft_delete(scores, Len(scores), clock).table
    /\ UNCHANGED <<games, clock, resp, trav, pure, removed>>

NextScorePages ==
    \/ SnapshotTick
    \/ \E d \in SnapshotScoreInputs : SnapshotScoreCreate(d)
    \/ SnapshotScoreSoftDelete
    \/ \E sort \in SortSpecs, limit \in PageLimits : ScoreListFirst(HexA, sort, limit)
    \/ ScoreListNext

\* the pages of the scores of one game, on a fixed snapshot
SpecScorePages == Init /\ [][NextScorePages]_vars

(***************************************************************************)
(* What the claims speak of.                                               *)
(***************************************************************************)
NoRepeat(seq) == \A i, j \in 1..Len(seq) : i # j => seq[i] # seq[j]

\* the rows of game hex that carry no deleted_at
VisibleScores(ss, hex) ==
    {ss[i] : i \in {j \in 1..Len(ss) : ss[j].game_hex_id = hex /\ ss[j].deleted_at = NULL}}

\* the sort field of row x against that of row y, by value: numbers as
\* numbers, instants as instants, names by their characters
FieldValueCmp(x, y, sort) ==
    CASE get_sort_field(sort) = "Score" -> IntCmp(x.score_val, y.score_val)
      [] get_sort_field(sort) = "Date" -> IntCmp(x.submitted_at, y.submitted_at)
      [] get_sort_field(sort) = "UserName" -> TextCmp(x.user_name, y.user_name)

\* the defined total order: the sort field in the requested direction, then
\* id ascending
DefinedBefore(x, y, sort) ==
    LET c == FieldValueCmp(x, y, sort)
    IN  \/ (get_sort_order(sort) = "Ascending" /\ c = -1)
        \/ (get_sort_order(sort) = "Descending" /\ c = 1)
        \/ (c = 0 /\ x.id < y.id)

DefinedScoreOrder(ss, hex, sort) ==
    LET Before(x, y) == DefinedBefore(x, y, sort)
    IN  Ids(OrderBy(VisibleScores(ss, hex), Before))

\* C1: on a fixed snapshot, the pages of a score traversal, concatenated, are
\* exactly the visible scores of the game in the defined total order (sort
\* field in the requested direction, then id ascending), for every sort spec:
\* no row is repeated, no request fails, and when has_more turns false no row
\* is missing.
C1_ScorePagesNoDupNoGap ==
    trav.kind = "scores" =>
        /\ trav.phase # "failed"
        /\ NoRepeat(trav.seen)
        /\ trav.phase = "done" => trav.seen = DefinedScoreOrder(scores, trav.hex, trav.sort)

\* the same, for the sort fields score and user_name only
ScorePagesNoDupNoGapExceptDate ==
    (trav.kind = "scores" /\ get_sort_field(trav.sort) # "Date") =>
        /\ trav.phase # "failed"
        /\ NoRepeat(trav.seen)
        /\ trav.phase = "done" => trav.seen = DefinedScoreOrder(scores, trav.hex, trav.sort)

\* the game name "A"
NameA == <<65>>

\* GameRepository::create before the traversal, with hex the id
\* generate_hex_id draws
SnapshotGameCreate(hex) ==
    /\ trav.phase = "idle"
    /\ Len(games) < MaxGames
    /\ games' = game_create(games, NameA, None, hex, clock).table
    /\ UNCHANGED <<scores, clock, resp, trav, pure, removed>>

\* GameRepository::soft_delete of the newest game before the traversal
SnapshotGameSoftDelete ==
    /\ trav.phase = "idle"
    /\ Len(games) > 0
    /\ games[Len(games)].deleted_at = NULL
    /\ games' = game_soft_delete(games, games[Len(games)].hex_id, clock).table
    /\ UNCHANGED <<scores, clock, resp, trav, pure, removed>>

\* GET /games without a cursor
GameListFirst(limit) ==
    /\ trav.phase = "idle"
    /\ trav' = AfterPage([IdleTrav EXCEPT !.kind = "games", !.limit = limit],
                          None,
                          game_list(games, PaginationParams(None, limit)))
    /\ UNCHANGED <<games, scores, clock, resp, pure, removed>>

\* GET /games with the next_cursor of the page before
GameListNext ==
    /\ trav.phase = "paging"
    /\ trav.kind = "games"
    /\ trav.pages < MaxPages
    /\ trav' = AfterPage(trav, trav.page.next_cursor,
                          game_list(games, PaginationParams(trav.page.next_cursor,
                                                            trav.limit)))
    /\ UNCHANGED <<games, scores, clock, resp, pure, removed>>

NextGamePages ==
    \/ SnapshotTick
    \/ \E hex \in HexIds : SnapshotGameCreate(hex)
    \/ SnapshotGameSoftDelete
    \/ \E limit \in PageLimits : GameListFirst(limit)
    \/ GameListNext

\* the pages of the games, on a fixed snapshot
SpecGamePages == Init /\ [][NextGamePages]_vars

\* the games that carry no deleted_at
VisibleGames(gs) == {gs[i] : i \in {j \in 1..Len(gs) : gs[j].deleted_at = NULL}}

\* the pair (created_at, hex_id) of x strictly below the pair (t, hex), by
\* value: instants as instants, hex ids by their characters
PairBelow(x, t, hex) ==
    x.created_at < t \/ (x.created_at = t /\ TextCmp(x.hex_id, hex) = -1)

\* created_at descending, then hex_id descending
DefinedGameBefore(x, y) == PairBelow(y, x.created_at, x.hex_id)

DefinedGameOrder(S) == OrderBy(S, DefinedGameBefore)

\* the pair a game cursor token holds
CursorPair(token) ==
    LET c == decode_game_cursor(token)
        t == IF c.ok THEN ParseFromRfc3339(c.val.created_at) ELSE [ok |-> FALSE]
    IN  IF c.ok /\ t.ok THEN [ok |-> TRUE, created_at |-> t.val, hex_id |-> c.val.hex_id]
        ELSE [ok |-> FALSE]

\* C2: on a fixed snapshot, the pages of a game traversal, concatenated, are
\* exactly the visible games ordered by (created_at descending, hex_id
\* descending): no request fails, no game is repeated, none is missing once
\* has_more turns false; and every page fetched with a cursor holds only games
\* whose (created_at, hex_id) pair is strictly below the pair of the cursor.
C2_GamePagesNoDupNoGap ==
    trav.kind = "games" =>
        /\ trav.phase # "failed"
        /\ NoRepeat(trav.seen)
        /\ trav.phase = "done" => trav.seen = Ids(DefinedGameOrder(VisibleGames(games)))
        /\ trav.request.some =>
              LET c == CursorPair(trav.request.val)
              IN  /\ c.ok
                  /\ \A i \in 1..Len(trav.page.data) :
                        PairBelow(trav.page.data[i], c.created_at, c.hex_id)

\* C2 happens: a traversal of three visible games, two of them created in
\* the same instant, has ended after at least two pages
C2_Witness ==
    /\ trav.kind = "games"
    /\ trav.phase = "done"
    /\ trav.pages >= 2
    /\ Len(trav.seen) = 3
    /\ \E x, y \in VisibleGames(games) : x.id # y.id /\ x.created_at = y.created_at

\* the visible scores of the traversed game are three rows of one score_val,
\* listed by score one row a page
ThreeTiedScores ==
    /\ trav.kind = "scores"
    /\ trav.limit = Some(1)
    /\ get_sort_field(trav.sort) = "Score"
    /\ Cardinality(VisibleScores(scores, trav.hex)) = 3
    /\ \A x, y \in VisibleScores(scores, trav.hex) : x.score_val = y.score_val

\* the ids of a set of rows, ascending
AscendingIds(S) == Ids(OrderBy(S, LAMBDA x, y : x.id < y.id))

\* C3: with three visible scores of one game that share their score_val,
\* successive list_by_game calls with limit 1, each with the next_cursor of
\* the call before, return the rows one by one in ascending id order, for
\* order asc and for order desc; the third call ends the traversal.
C3_TieBreakAscendingId ==
    ThreeTiedScores =>
        /\ trav.phase # "failed"
        /\ trav.pages <= 3
        /\ trav.seen = SubSeq(AscendingIds(VisibleScores(scores, trav.hex)), 1, trav.pages)
        /\ trav.phase = "done" <=> trav.pages = 3

\* C3 happens: the third call of a descending traversal has answered
C3_Witness ==
    /\ ThreeTiedScores
    /\ get_sort_order(trav.sort) = "Descending"
    /\ trav.pages = 3

\* the games that match the last request of the traversal, in the defined order
MatchingGames ==
    LET c == IF trav.request.some THEN CursorPair(trav.request.val) ELSE [ok |-> FALSE]
        S == IF trav.request.some
             THEN {g \in VisibleGames(games) :
                      c.ok /\ PairBelow(g, c.created_at, c.hex_id)}
             ELSE VisibleGames(games)
    IN  DefinedGameOrder(S)

\* C4: a list request with limit k against at most k matching rows returns
\* them all with has_more false and no next_cursor; against k+1 or more it
\* returns the first k with has_more true and a next_cursor that decodes to
\* the key of the k-th row, the last one returned, not that of the probe row.
C4_HasMore ==
    (trav.kind = "games" /\ trav.phase \in {"paging", "done"}) =>
        LET M == MatchingGames
            k == trav.limit.val
            p == trav.page
        IN  /\ Len(M) <= k =>
                  /\ p.data = M
                  /\ ~p.has_more
                  /\ p.next_cursor = None
            /\ Len(M) > k =>
                  /\ p.data = SubSeq(M, 1, k)
                  /\ p.has_more
                  /\ p.next_cursor.some
                  /\ LET c == CursorPair(p.next_cursor.val)
                     IN  /\ c.ok
                         /\ c.created_at = M[k].created_at
                         /\ c.hex_id = M[k].hex_id

\* C4 happens: a request with limit 2 met three matching games
C4_Witness ==
    /\ trav.kind = "games"
    /\ trav.pages = 1
    /\ trav.limit = Some(2)
    /\ Len(MatchingGames) = 3
    /\ trav.page.has_more

\* a request with limit k met exactly k matching games
ExactlyLimitMatches ==
    /\ trav.kind = "games"
    /\ trav.pages >= 1
    /\ Len(MatchingGames) = trav.limit.val
    /\ ~trav.page.has_more

(***************************************************************************)
(* The life of the store: callers create, read, update, soft-delete and    *)
(* restore games and scores, one repository call at a time, while the      *)
(* clock moves on.  resp is the answer to the last call; removed is the    *)
(* history of the rows a soft_delete took away and no restore brought back *)
(* (games, scores) and of the rows a restore brought back and no           *)
(* soft_delete took away since (games_back, scores_back).                  *)
(***************************************************************************)
\* the game name "B"
NameB == <<66>>

LiveHexIds == {HexA, HexB}

\* a new score "5" by "bob" for game hex
LiveScoreInput(hex) == CreateScore(hex, <<53>>, None, <<98, 111, 98>>, <<117, 49>>, None)

\* an update of the score to "10"
LiveScoreUpdate == UpdateScore(Some(<<49, 48>>), None, None, None, None)

LiveSort == ScoreSortParams(None, None)

LiveIds == 1..MaxLiveRows

\* a list request without cursor and limit
WholeList == PaginationParams(None, None)

Resp(op, arg, r) == [op |-> op, arg |-> arg, status |-> r.status, data |-> r.data]

\* time passes between two calls
Tick ==
    /\ clock < MaxLiveTime
    /\ clock' = clock + 1
    /\ UNCHANGED <<games, scores, resp, trav, pure, removed>>

\* GameRepository::create, with hex the id generate_hex_id draws
GameCreate(name, hex) ==
    /\ Len(games) + Len(scores) < MaxLiveRows
    /\ LET r == game_create(games, name, None, hex, clock)
       IN  /\ games' = r.table
           /\ resp' = Resp("game_create", hex, r)
    /\ UNCHANGED <<scores, clock, trav, pure, removed>>

\* GameRepository::get_by_hex_id
GameGetByHexId(hex) ==
    /\ resp' = Resp("game_get_by_hex_id", hex, game_get_by_hex_id(games, hex))
    /\ UNCHANGED <<games, scores, clock, trav, pure, removed>>

\* GameRepository::get_by_id
GameGetById(id) ==
    /\ resp' = Resp("game_get_by_id", id, game_get_by_id(games, id))
    /\ UNCHANGED <<games, scores, clock, trav, pure, removed>>

\* GameRepository::list
GameList ==
    /\ resp' = Resp("game_list", NoData, game_list(games, WholeList))
    /\ UNCHANGED <<games, scores, clock, trav, pure, removed>>

\* GameRepository::update
GameUpdate(hex, name) ==
    /\ LET r == game_update(games, hex, Some(name), None, clock)
       IN  /\ games' = r.table
           /\ resp' = Resp("game_update", hex, r)
    /\ UNCHANGED <<scores, clock, trav, pure, removed>>

\* GameRepository::soft_delete
GameSoftDelete(hex) ==
    /\ LET r == game_soft_delete(games, hex, clock)
           x == game_get_by_hex_id(games, hex)
       IN  /\ games' = r.table
           /\ resp' = Resp("game_soft_delete", hex, r)
           /\ removed' = IF r.status = "Ok" /\ x.status = "Ok"
                         THEN [removed EXCEPT !.games = @ \cup {x.data.id},
                                              !.games_back = @ \ {x.data.id}]
                         ELSE removed
    /\ UNCHANGED <<scores, clock, trav, pure>>

\* GameRepository::restore
GameRestore(hex) ==
    /\ LET r == game_restore(games, hex, clock)
       IN  /\ games' = r.table
           /\ resp' = Resp("game_restore", hex, r)
           /\ removed' = IF r.status = "Ok"
                         THEN [removed EXCEPT !.games = @ \ {r.data.id},
                                              !.games_back = @ \cup {r.data.id}]
                         ELSE removed
    /\ UNCHANGED <<scores, clock, trav, pure>>

\* ScoreRepository::create
ScoreCreate(hex) ==
    /\ Len(games) + Len(scores) < MaxLiveRows
    /\ LET r == score_create(scores, LiveScoreInput(hex), clock)
       IN  /\ scores' = r.table
           /\ resp' = Resp("score_create", hex, r)
    /\ UNCHANGED <<games, clock, trav, pure, removed>>

\* ScoreRepository::get_by_id
ScoreGetById(id) ==
    /\ resp' = Resp("score_get_by_id", id, score_get_by_id(scores, games, id))
    /\ UNCHANGED <<games, scores, clock, trav, pure, removed>>

\* ScoreRepository::list_by_game
ScoreList(hex, sort) ==
    /\ resp' = Resp("score_list_by_game", [hex |-> hex, sort |-> sort],
                    score_list_by_game(scores, games, hex, WholeList, sort))
    /\ UNCHANGED <<games, scores, clock, trav, pure, removed>>

\* ScoreRepository::update
ScoreUpdate(id) ==
    /\ LET r == score_update(scores, id, LiveScoreUpdate)
       IN  /\ scores' = r.table
           /\ resp' = Resp("score_update", id, r)
    /\ UNCHANGED <<games, clock, trav, pure, removed>>

\* ScoreRepository::soft_delete
ScoreSoftDelete(id) ==
    /\ LET r == score_soft_delete(scores, id, clock)
       IN  /\ scores' = r.table
           /\ resp' = Resp("score_soft_delete", id, r)
           /\ removed' = IF r.status = "Ok"
                         THEN [removed EXCEPT !.scores = @ \cup {id},
                                              !.scores_back = @ \ {id}]
                         ELSE removed
    /\ UNCHANGED <<games, clock, trav, pure>>

\* ScoreRepository::restore
ScoreRestore(id) ==
    /\ LET r == score_restore(scores, id)
       IN  /\ scores' = r.table
           /\ resp' = Resp("score_restore", id, r)
           /\ removed' = IF r.status = "Ok"
                         THEN [removed EXCEPT !.scores = @ \ {id},
                                              !.scores_back = @ \cup {id}]
                         ELSE removed
    /\ UNCHANGED <<games, clock, trav, pure>>

Next ==
    \/ Tick
    \/ \E hex \in LiveHexIds : GameCreate(NameA, hex)
    \/ \E hex \in LiveHexIds : GameGetByHexId(hex)
    \/ \E id \in LiveIds : GameGetById(id)
    \/ GameList
    \/ \E hex \in LiveHexIds : GameUpdate(hex, NameB)
    \/ \E hex \in LiveHexIds : GameSoftDelete(hex)
    \/ \E hex \in LiveHexIds : GameRestore(hex)
    \/ \E hex \in LiveHexIds : ScoreCreate(hex)
    \/ \E id \in LiveIds : ScoreGetById(id)
    \/ \E hex \in LiveHexIds : ScoreList(hex, LiveSort)
    \/ \E id \in LiveIds : ScoreUpdate(id)
    \/ \E id \in LiveIds : ScoreSoftDelete(id)
    \/ \E id \in LiveIds : ScoreRestore(id)

Spec == Init /\ [][Next]_vars

(***************************************************************************)
(* Soft delete and restore, as the callers of the store see them.          *)
(***************************************************************************)
GameReads == {"game_get_by_hex_id", "game_get_by_id"}

\* the rows of a table, as a set
Rows(t) == {t[i] : i \in 1..Len(t)}

\* the games no soft_delete has taken away, or a restore has brought back
KeptGames == {g \in Rows(games) : g.id \notin removed.games}

\* the scores of game hex no soft_delete has taken away, or a restore has
\* brought back
KeptScores(hex) == {s \in Rows(scores) : s.game_hex_id = hex /\ s.id \notin removed.scores}

\* no get returns a removed row, and no list holds one
RemovedRowsUnseen ==
    /\ (resp.op \in GameReads /\ resp.status = "Ok") => resp.data.id \notin removed.games
    /\ (resp.op = "game_list" /\ resp.status = "Ok") =>
          \A i \in 1..Len(resp.data.data) : resp.data.data[i].id \notin removed.games
    /\ (resp.op = "score_get_by_id" /\ resp.status = "Ok") =>
          resp.data.id \notin removed.scores
    /\ (resp.op = "score_list_by_game" /\ resp.status = "Ok") =>
          \A i \in 1..Len(resp.data.data) : resp.data.data[i].id \notin removed.scores

\* a page of games is in the order (created_at descending, hex_id descending)
GamesInDefinedOrder(rows) == rows = DefinedGameOrder(Rows(rows))

\* a page of scores is in the order (sort field in its direction, id ascending)
ScoresInDefinedOrder(rows, sort) ==
    rows = OrderBy(Rows(rows), LAMBDA x, y : DefinedBefore(x, y, sort))

\* the list of the games holds every restored game, at the place of its
\* ordering key
RestoredGamesListed ==
    (resp.op = "game_list" /\ resp.status = "Ok") =>
        /\ removed.games_back \subseteq Rows(Ids(resp.data.data))
        /\ GamesInDefinedOrder(resp.data.data)

\* the restored scores of game hex
RestoredScores(hex) ==
    {s \in Rows(scores) : s.game_hex_id = hex /\ s.id \in removed.scores_back}

\* the list of the scores of a game holds every restored score of the game,
\* at the place of its ordering key
RestoredScoresListed ==
    (resp.op = "score_list_by_game" /\ resp.status = "Ok") =>
        /\ Rows(Ids(OrderBy(RestoredScores(resp.arg.hex), LAMBDA x, y : x.id < y.id)))
              \subseteq Rows(Ids(resp.data.data))
        /\ ScoresInDefinedOrder(resp.data.data, resp.arg.sort)

\* the same, for a game that is not soft-deleted
RestoredScoresListedOfLiveGame ==
    (resp.op = "score_list_by_game" /\ ~CascadeHidden(games, resp.arg.hex)) =>
        RestoredScoresListed

\* soft_delete and restore leave the ordering keys of all rows as they were
OrderingKeysKept ==
    resp'.op \in {"game_soft_delete", "game_restore", "score_soft_delete", "score_restore"} =>
        /\ Len(games') = Len(games)
        /\ Len(scores') = Len(scores)
        /\ \A i \in 1..Len(games) :
              games'[i].created_at = games[i].created_at /\ games'[i].hex_id = games[i].hex_id
        /\ \A i \in 1..Len(scores) :
              /\ scores'[i].score_val = scores[i].score_val
              /\ scores'[i].submitted_at = scores[i].submitted_at
              /\ scores'[i].user_name = scores[i].user_name

CallStep == clock' = clock

StoreKept == games' = games /\ scores' = scores

\* the store holds a game hex that is not soft-deleted
LiveGame(hex) == \E i \in 1..Len(games) : games[i].hex_id = hex /\ games[i].deleted_at = NULL

\* the store holds a soft-deleted game hex
DeadGame(hex) == \E i \in 1..Len(games) : games[i].hex_id = hex /\ games[i].deleted_at # NULL

LiveScore(id) == \E i \in 1..Len(scores) : scores[i].id = id /\ scores[i].deleted_at = NULL

DeadScore(id) == \E i \in 1..Len(scores) : scores[i].id = id /\ scores[i].deleted_at # NULL

\* C8: soft_delete of a game or score that is absent or already soft-deleted
\* answers NotFound, restore of one that is absent or not soft-deleted
\* answers NotFound, and in each case no row of the store changes: an
\* already-deleted row keeps its deleted_at.
C8_NotFoundChangesNothing ==
    [][CallStep =>
        /\ (resp'.op = "game_soft_delete" /\ ~LiveGame(resp'.arg)) =>
              (resp'.status = "NotFound" /\ StoreKept)
        /\ (resp'.op = "game_restore" /\ ~DeadGame(resp'.arg)) =>
              (resp'.status = "NotFound" /\ StoreKept)
        /\ (resp'.op = "score_soft_delete" /\ ~LiveScore(resp'.arg)) =>
              (resp'.status = "NotFound" /\ StoreKept)
        /\ (resp'.op = "score_restore" /\ ~DeadScore(resp'.arg)) =>
              (resp'.status = "NotFound" /\ StoreKept)]_vars

\* C8 happens: soft_delete has answered NotFound for a game that was
\* soft-deleted an instant before and is not restored
C8_Witness ==
    /\ resp.op = "game_soft_delete"
    /\ resp.status = "NotFound"
    /\ ~LiveGame(resp.arg)
    /\ \E i \in 1..Len(games) :
          /\ games[i].hex_id = resp.arg
          /\ games[i].deleted_at # NULL
          /\ games[i].deleted_at < clock

\* restore has answered NotFound for a game that is not soft-deleted
RestoreOfLiveGameNotFound ==
    resp.op = "game_restore" /\ resp.status = "NotFound" /\ LiveGame(resp.arg)

\* the rows the last answer returned, for the reads
ReturnedRows ==
    CASE resp.status # "Ok" -> {}
      [] resp.op \in GameReads \cup {"score_get_by_id"} -> {resp.data}
      [] resp.op \in {"game_list", "score_list_by_game"} -> Rows(resp.data.data)
      [] OTHER -> {}

\* the table the last call read or wrote
TableOf(op) ==
    IF op \in GameReads \cup {"game_list", "game_update"} THEN games ELSE scores

\* no read returns a row whose deleted_at is set
ReadsSeeNoDeleted ==
    \A r \in ReturnedRows : r.deleted_at = NULL /\ TableOf(resp.op)[r.id].deleted_at = NULL

\* update leaves every soft-deleted row as it is, and answers NotFound when
\* the row it names is soft-deleted
UpdateSkipsDeleted ==
    CallStep =>
        /\ resp'.op = "game_update" =>
              /\ \A i \in 1..Len(games) : games[i].deleted_at # NULL => games'[i] = games[i]
              /\ (DeadGame(resp'.arg) /\ ~LiveGame(resp'.arg)) => resp'.status = "NotFound"
        /\ resp'.op = "score_update" =>
              /\ \A i \in 1..Len(scores) : scores[i].deleted_at # NULL => scores'[i] = scores[i]
              /\ DeadScore(resp'.arg) => resp'.status = "NotFound"

\* C9: no row with deleted_at set is returned by GameRepository::get_by_hex_id,
\* get_by_id, list, ScoreRepository::get_by_id or list_by_game, and update of
\* a soft-deleted game or score answers NotFound and leaves the row as it is.
C9_DeletedRowsInvisible == [][ReadsSeeNoDeleted' /\ UpdateSkipsDeleted]_vars

\* C9 happens: update has answered NotFound for a soft-deleted game, an
\* instant after its soft delete
C9_Witness ==
    /\ resp.op = "game_update"
    /\ resp.status = "NotFound"
    /\ \E i \in 1..Len(games) :
          /\ games[i].hex_id = resp.arg
          /\ games[i].deleted_at # NULL
          /\ games[i].deleted_at < clock

\* a get has answered NotFound for a soft-deleted row
GetOfDeletedNotFound ==
    \/ resp.op = "game_get_by_id" /\ resp.status = "NotFound" /\ resp.arg \in removed.games
    \/ resp.op = "score_get_by_id" /\ resp.status = "NotFound" /\ resp.arg \in removed.scores

\* the hex ids of the games a soft_delete took away and no restore brought back
RemovedHexIds == {games[i].hex_id : i \in removed.games}

\* list_by_game of a game that is soft-deleted returns no row
ScoresOfRemovedGameUnlisted ==
    (resp.op = "score_list_by_game" /\ resp.arg.hex \in RemovedHexIds) =>
        (resp.status = "Ok" /\ resp.data.data = <<>>)

\* list_by_game of a game that is not soft-deleted returns its scores, all
\* but the soft-deleted
ScoresOfKeptGameListed ==
    (resp.op = "score_list_by_game" /\ resp.arg.hex \notin RemovedHexIds) =>
        /\ resp.status = "Ok"
        /\ Ids(resp.data.data) =
              Ids(OrderBy(KeptScores(resp.arg.hex),
                          LAMBDA x, y : DefinedBefore(x, y, resp.arg.sort)))

\* get_by_id returns no score of a game that is soft-deleted
ScoresOfRemovedGameUnread ==
    (resp.op = "score_get_by_id" /\ resp.status = "Ok") =>
        resp.data.game_hex_id \notin RemovedHexIds

ScoresOfRestoredGameListed ==
    /\ resp.op = "score_list_by_game"
    /\ resp.status = "Ok"
    /\ Len(resp.data.data) > 0
    /\ \E i \in removed.games_back : games[i].hex_id = resp.arg.hex

(***************************************************************************)
(* The pure functions on their own: an input is drawn, then the function    *)
(* is applied to it.                                                       *)
(***************************************************************************)
\* limits of a request: none, 0 .. MaxLimitInput, and large ones up to the
\* largest number the checker holds (a u32 goes on to 4294967295)
LimitInputs ==
    {None} \cup {Some(n) : n \in 0..MaxLimitInput} \cup {Some(1000), Some(65536), Some(2147483647)}

\* the characters of cursor texts, in UTF-8: a, 0, '"', '\', line feed, e acute
TextChars == {<<97>>, <<48>>, <<34>>, <<92>>, <<10>>, <<195, 169>>}

\* the texts of up to n characters
RECURSIVE TextsUpTo(_)
TextsUpTo(n) ==
    IF n = 0 THEN {<<>>}
    ELSE TextsUpTo(n - 1) \cup {t \o c : t \in TextsUpTo(n - 1), c \in TextChars}

\* cursor texts: short ones of every character, and the ones the
\* repositories write
CursorTexts == TextsUpTo(MaxTextLen) \cup HexIds \cup {ToRfc3339(t) : t \in Times}

\* ids of score cursors
CursorIds == {0 - 120, 0 - 1, 0, 7, 10, 2147483647}

GameCursorInputs == {GameCursor(h, t) : h \in CursorTexts, t \in CursorTexts}

ScoreCursorInputs == {ScoreCursor(i, v) : i \in CursorIds, v \in CursorTexts}

PureInput(fn, input) == [fn |-> fn, stage |-> "input", input |-> input]

PureOutput(fn, input, output) == [fn |-> fn, stage |-> "output", input |-> input, output |-> output]

\* query results: n rows, numbered from 1, for the limits 0 .. MaxLimit and
\* every n up to two more than the limit
QueryResultInputs ==
    {[data |-> [i \in 1..n |-> i], requested_limit |-> l] :
        <<l, n>> \in {p \in (0..MaxLimit) \X (0..MaxLimit + 2) : p[2] <= p[1] + 2}}

InitPure ==
    /\ games = <<>>
    /\ scores = <<>>
    /\ clock = 0
    /\ resp = NoResp
    /\ trav = IdleTrav
    /\ removed = NoneRemoved
    /\ pure \in {PureInput("get_limit", l) : l \in LimitInputs}
                \cup {PureInput("game_cursor", c) : c \in GameCursorInputs}
                \cup {PureInput("score_cursor", c) : c \in ScoreCursorInputs}
                \cup {PureInput("sort_params", sp) : sp \in SortSpecs}
                \cup {PureInput("from_query_results", q) : q \in QueryResultInputs}

\* PaginationParams::get_limit on the drawn limit
ApplyGetLimit ==
    /\ pure.stage = "input"
    /\ pure.fn = "get_limit"
    /\ pure' = PureOutput("get_limit", pure.input,
                          get_limit(PaginationParams(None, pure.input)))
    /\ UNCHANGED <<games, scores, clock, resp, trav, removed>>

\* encode_game_cursor on the drawn cursor, then decode_game_cursor on the token
GameCursorRoundTrip ==
    /\ pure.stage = "input"
    /\ pure.fn = "game_cursor"
    /\ LET token == encode_game_cursor(pure.input)
       IN  pure' = PureOutput("game_cursor", pure.input,
                              [token |-> token, again |-> encode_game_cursor(pure.input),
                               decoded |-> decode_game_cursor(token)])
    /\ UNCHANGED <<games, scores, clock, resp, trav, removed>>

\* encode_score_cursor on the drawn cursor, then decode_score_cursor on the token
ScoreCursorRoundTrip ==
    /\ pure.stage = "input"
    /\ pure.fn = "score_cursor"
    /\ LET token == encode_score_cursor(pure.input)
       IN  pure' = PureOutput("score_cursor", pure.input,
                              [token |-> token, again |-> encode_score_cursor(pure.input),
                               decoded |-> decode_score_cursor(token)])
    /\ UNCHANGED <<games, scores, clock, resp, trav, removed>>

\* a score whose three sort columns hold values of different texts
ProbeScore ==
    [id |-> 7, game_hex_id |-> HexA, score |-> <<52, 50>>, score_val |-> 42,
     user_name |-> <<65, 108>>, user_id |-> <<117, 49>>, extra |-> None,
     submitted_at |-> 1, deleted_at |-> NULL]

\* the pieces ScoreRepository::list_by_game builds its query from for the
\* drawn sort spec: the ORDER BY clause, the column sort_field of the keyset
\* predicate, its comparison operator, and the cursor of ProbeScore
ApplySortParams ==
    /\ pure.stage = "input"
    /\ pure.fn = "sort_params"
    /\ pure' = PureOutput("sort_params", pure.input,
                          [order_field |-> order_clause_field(pure.input),
                           order_dir |-> order_clause_dir(pure.input),
                           sort_field |-> get_cursor_field(pure.input),
                           comparison_op |-> comparison_op(pure.input),
                           cursor |-> ScoreCursor_from_score(ProbeScore,
                                                             get_cursor_field(pure.input))])
    /\ UNCHANGED <<games, scores, clock, resp, trav, removed>>

\* PaginatedResponse::from_query_results on the drawn rows and limit, with a
\* closure that turns row i into the cursor "i"
ApplyFromQueryResults ==
    /\ pure.stage = "input"
    /\ pure.fn = "from_query_results"
    /\ pure' = PureOutput("from_query_results", pure.input,
                          from_query_results(pure.input.data, pure.input.requested_limit,
                                             None,
                                             [i \in 1..Len(pure.input.data) |->
                                                 Some(<<48 + pure.input.data[i]>>)]))
    /\ UNCHANGED <<games, scores, clock, resp, trav, removed>>

NextPure ==
    \/ ApplyGetLimit
    \/ GameCursorRoundTrip
    \/ ScoreCursorRoundTrip
    \/ ApplySortParams
    \/ ApplyFromQueryResults

SpecPure == InitPure /\ [][NextPure]_vars

\* get_limit has answered
LimitAnswered == pure # NoData /\ pure.stage = "output" /\ pure.fn = "get_limit"

\* C5: get_limit returns a value in 1 .. MAX_PAGE_SIZE for every input: 25
\* (DEFAULT_PAGE_SIZE) for an absent limit, the limit itself when it lies in
\* 1 .. 100, and 100 (MAX_PAGE_SIZE) for the limit 0 and every limit above
\* 100; there is no error outcome.
C5_LimitClamped ==
    LimitAnswered =>
        /\ pure.output \in 1..MAX_PAGE_SIZE
        /\ ~pure.input.some => pure.output = 25
        /\ (pure.input.some /\ pure.input.val \in 1..100) => pure.output = pure.input.val
        /\ (pure.input.some /\ (pure.input.val = 0 \/ pure.input.val > 100)) =>
              pure.output = 100

\* C5 happens: get_limit has answered 100 to the limit 0
C5_Witness == LimitAnswered /\ pure.input = Some(0) /\ pure.output = 100

\* get_limit has answered 100 to the limit 1000
LimitThousandCapped == LimitAnswered /\ pure.input = Some(1000) /\ pure.output = 100

\* a cursor has been encoded and its token decoded
CursorAnswered ==
    pure # NoData /\ pure.stage = "output" /\ pure.fn \in {"game_cursor", "score_cursor"}

\* C6: for every game cursor (hex_id, created_at) and every score cursor
\* (id, sort_value), decoding the token that encoding yields succeeds and
\* returns a cursor of the same field values; encoding the cursor a second
\* time yields the same token.
C6_CursorRoundTrip ==
    CursorAnswered =>
        /\ pure.output.decoded.ok
        /\ pure.output.decoded.val = pure.input
        /\ pure.output.again = pure.output.token

\* C6 happens: a score cursor with a negative id and a sort_value made of a
\* backslash and a quote has come back from its token
C6_Witness ==
    /\ CursorAnswered
    /\ pure.fn = "score_cursor"
    /\ pure.input.id < 0
    /\ pure.input.sort_value = <<92, 34>>
    /\ pure.output.decoded.ok

(***************************************************************************)
(* The handlers (src/src/handlers) and the response the client receives    *)
(* (src/src/error/mod.rs).  The store may fail a query: store_ok tells     *)
(* whether the query of a repository operation succeeds.                   *)
(***************************************************************************)
\* the detail of a sqlx::Error, which only the log may show
StoreErrorDetail == "sqlx::Error"

\* the checks of a repository operation that come before its query
RejectedBeforeQuery(r) == r.status \in {"ValidationError", "InvalidParameter"}

\* a repository operation on a store whose query succeeds or fails: every
\* operation sends one query, after its checks, and `.await?` turns the
\* sqlx::Error into ApiError::Database
Queried(store_ok, r, table) ==
    IF RejectedBeforeQuery(r)
    THEN [status |-> r.status, data |-> r.data, table |-> table, queries |-> 0, failed |-> 0]
    ELSE IF store_ok
    THEN [status |-> r.status, data |-> r.data, table |-> r.table, queries |-> 1, failed |-> 0]
    ELSE [status |-> "Database", data |-> <<StoreErrorDetail>>, table |-> table,
          queries |-> 1, failed |-> 1]

\* a request the handler refuses before it calls a repository
Refused(status, message, table) ==
    [status |-> status, data |-> message, table |-> table, queries |-> 0, failed |-> 0]

\* ApiError::into_response: the status code and the "error" text of the body
into_response(status, data) ==
    IF status = "Database" THEN [code |-> 500, error |-> <<"Internal server error">>]
    ELSE IF status = "NotFound" THEN [code |-> 404, error |-> <<"Not found">>]
    ELSE IF status = "BadRequest" THEN [code |-> 400, error |-> data]
    ELSE IF status = "InternalServerError"
    THEN [code |-> 500, error |-> <<"Internal server error">>]
    ELSE IF status = "ValidationError" THEN [code |-> 422, error |-> data]
    ELSE [code |-> 400, error |-> data]

\* what the client receives from a handler: the body of the success status
\* ok_code, or the response of the ApiError
Answer(op, arg, h, ok_code) ==
    IF h.status = "Ok"
    THEN [op |-> op, arg |-> arg, status |-> "Ok", code |-> ok_code, error |-> NoData,
          data |-> h.data, queries |-> h.queries, failed |-> h.failed]
    ELSE [op |-> op, arg |-> arg, status |-> h.status,
          code |-> into_response(h.status, h.data).code,
          error |-> into_response(h.status, h.data).error,
          data |-> NoData, queries |-> h.queries, failed |-> h.failed]

\* serde_urlencoded::from_str::<PaginationParams>: limit is a u32
ParsePaginationParams(q) ==
    IF q.limit.some /\ ~AllDigits(q.limit.val)
    THEN [ok |-> FALSE, err |-> <<"Invalid pagination parameters">>]
    ELSE [ok |-> TRUE,
          val |-> PaginationParams(q.cursor,
                                   IF q.limit.some THEN Some(DigitsToNat(q.limit.val))
                                   ELSE None)]

\* the serde names of ScoreSortField
SortFieldOf(name) ==
    IF name = "score" THEN Some("Score")
    ELSE IF name = "date" THEN Some("Date")
    ELSE IF name = "user_name" THEN Some("UserName")
    ELSE None

\* the serde names of SortOrder
SortOrderOf(name) ==
    IF name = "asc" THEN Some("Ascending")
    ELSE IF name = "desc" THEN Some("Descending")
    ELSE None

\* a parser that takes an unknown sort key for no sort key
ParseScoreSortParams_Defaulted(q) ==
    [ok |-> TRUE,
     val |-> ScoreSortParams(IF q.sort_by.some THEN SortFieldOf(q.sort_by.val) ELSE None,
                             IF q.order.some THEN SortOrderOf(q.order.val) ELSE None)]

\* serde_urlencoded::from_str::<ScoreSortParams>: an unknown variant is an
\* error
ParseScoreSortParams(q) ==
    IF q.sort_by.some /\ ~SortFieldOf(q.sort_by.val).some
    THEN [ok |-> FALSE, err |-> <<"Invalid sort parameters", "sort_by">>]
    ELSE IF q.order.some /\ ~SortOrderOf(q.order.val).some
    THEN [ok |-> FALSE, err |-> <<"Invalid sort parameters", "order">>]
    ELSE [ok |-> TRUE,
          val |-> ScoreSortParams(IF q.sort_by.some THEN SortFieldOf(q.sort_by.val) ELSE None,
                                  IF q.order.some THEN SortOrderOf(q.order.val) ELSE None)]

\* handlers::game::create_game
create_game(gs, name, hex_id, now, store_ok) ==
    Queried(store_ok, game_create(gs, name, None, hex_id, now), gs)

\* handlers::game::list_games
list_games(gs, params, store_ok) == Queried(store_ok, game_list(gs, params), gs)

\* handlers::game::get_game
get_game(gs, hex_id, store_ok) == Queried(store_ok, game_get_by_hex_id(gs, hex_id), gs)

\* handlers::game::update_game
update_game(gs, hex_id, name, now, store_ok) ==
    Queried(store_ok, game_update(gs, hex_id, Some(name), None, now), gs)

\* handlers::game::delete_game
delete_game(gs, hex_id, now, store_ok) ==
    Queried(store_ok, game_soft_delete(gs, hex_id, now), gs)

\* handlers::score::create_score once the game lookup has answered
CreateScoreFor(ss, create_data, now, lookup, store_ok) ==
    IF lookup.status # "Ok"
    THEN [status |-> "NotFound", data |-> NoData, table |-> ss,
          queries |-> lookup.queries, failed |-> lookup.failed]
    ELSE [Queried(store_ok, score_create(ss, create_data, now), ss)
             EXCEPT !.queries = @ + lookup.queries]

\* handlers::score::create_score
create_score(ss, gs, game_hex_id, create_data, now, lookup_ok, store_ok) ==
    IF ~validate_user_name(create_data.user_name)
    THEN Refused("ValidationError", NoData, ss)
    ELSE IF ~validate_user_id(create_data.user_id)
    THEN Refused("ValidationError", NoData, ss)
    ELSE CreateScoreFor(ss, [create_data EXCEPT !.game_hex_id = game_hex_id], now,
                        Queried(lookup_ok, game_get_by_hex_id(gs, game_hex_id), gs),
                        store_ok)

\* handlers::score::list_scores with the query string parsed
ListScoresWith(ss, gs, game_hex_id, pagination, sort_params, store_ok) ==
    IF ~pagination.ok THEN Refused("ValidationError", pagination.err, ss)
    ELSE IF ~sort_params.ok THEN Refused("ValidationError", sort_params.err, ss)
    ELSE Queried(store_ok,
                 score_list_by_game(ss, gs, game_hex_id, pagination.val, sort_params.val),
                 ss)

\* handlers::score::list_scores
list_scores(ss, gs, game_hex_id, q, store_ok) ==
    ListScoresWith(ss, gs, game_hex_id, ParsePaginationParams(q), ParseScoreSortParams(q),
                   store_ok)

\* handlers::score::get_score
get_score(ss, gs, id, store_ok) == Queried(store_ok, score_get_by_id(ss, gs, id), ss)

\* handlers::score::update_score
update_score(ss, id, update_data, store_ok) ==
    Queried(store_ok, score_update(ss, id, update_data), ss)

\* handlers::score::delete_score
delete_score(ss, id, now, store_ok) == Queried(store_ok, score_soft_delete(ss, id, now), ss)

(***************************************************************************)
(* Requests to the handlers, on a store of up to MaxLiveRows rows whose    *)
(* queries may fail.                                                       *)
(***************************************************************************)
\* "!!": characters outside the base64 alphabet
TokenNotBase64 == <<33, 33>>
\* "A": a length base64 does not have
TokenBadLength == <<65>>
\* the byte 255, which is not UTF-8
TokenNotUtf8 == B64Encode(<<255>>)
\* abc, which is not JSON
TokenNotJson == B64Encode(<<97, 98, 99>>)
\* {"id":1}, which is JSON of another shape than either cursor
TokenOtherShape == B64Encode(<<123, 34, 105, 100, 34, 58, 49, 125>>)
\* a game cursor whose created_at is "yes"
TokenBadDate == encode_game_cursor(GameCursor(HexB, <<121, 101, 115>>))
\* the cursor of a game "00000b" created at instant 0
TokenOfGame == encode_game_cursor(GameCursor(HexB, ToRfc3339(0)))
\* a score cursor: the scores that follow the id 0 among those of score_val 5
TokenOfScore == encode_score_cursor(ScoreCursor(0, <<53>>))

\* tokens that no decoder accepts, by the step that refuses them
UndecodableTokens ==
    {TokenNotBase64, TokenBadLength, TokenNotUtf8, TokenNotJson, TokenOtherShape}

\* tokens that are not the cursor of a game list
MalformedGameTokens == UndecodableTokens \cup {TokenBadDate, TokenOfScore}

\* tokens that are not the cursor of a score list
MalformedScoreTokens == UndecodableTokens \cup {TokenBadDate, TokenOfGame}

RequestTokens == UndecodableTokens \cup {TokenBadDate, TokenOfGame, TokenOfScore}

\* the query strings of GET /games: cursor and limit
GameListParams ==
    {PaginationParams(c, None) : c \in {None} \cup {Some(t) : t \in RequestTokens}}

\* a query string of GET /scores, field by field as the client wrote it
ScoreQuery(cursor, limit, sort_by, order) ==
    [cursor |-> cursor, limit |-> limit, sort_by |-> sort_by, order |-> order]

\* the query strings of GET /scores: every token with the default sort, and
\* known and unknown sort keys with no cursor and with a cursor nothing
\* decodes; the limits "0", "1", "101" and "x"
ScoreListQueries ==
    {ScoreQuery(c, None, None, None) : c \in {None} \cup {Some(t) : t \in RequestTokens}}
    \cup {ScoreQuery(c, None, f, o) :
            c \in {None, Some(TokenNotBase64)},
            f \in {None, Some("date"), Some("points")},
            o \in {None, Some("asc"), Some("up")}}
    \cup {ScoreQuery(None, l, None, None) :
            l \in {Some(<<48>>), Some(<<49>>), Some(<<49, 48, 49>>), Some(<<120>>)}}

\* POST /games
CreateGameRequest(hex, store_ok) ==
    /\ Len(games) + Len(scores) < MaxLiveRows
    /\ LET h == create_game(games, NameA, hex, clock, store_ok)
       IN  /\ games' = h.table
           /\ resp' = Answer("create_game", [hex |-> hex], h, 201)
    /\ UNCHANGED <<scores, clock, trav, pure, removed>>

\* GET /games
ListGamesRequest(params, store_ok) ==
    /\ resp' = Answer("list_games", params, list_games(games, params, store_ok), 200)
    /\ UNCHANGED <<games, scores, clock, trav, pure, removed>>

\* GET /games/:hex_id
GetGameRequest(hex, store_ok) ==
    /\ resp' = Answer("get_game", [hex |-> hex], get_game(games, hex, store_ok), 200)
    /\ UNCHANGED <<games, scores, clock, trav, pure, removed>>

\* PUT /games/:hex_id
UpdateGameRequest(hex, store_ok) ==
    /\ LET h == update_game(games, hex, NameB, clock, store_ok)
       IN  /\ games' = h.table
           /\ resp' = Answer("update_game", [hex |-> hex], h, 200)
    /\ UNCHANGED <<scores, clock, trav, pure, removed>>

\* DELETE /games/:hex_id
DeleteGameRequest(hex, store_ok) ==
    /\ LET h == delete_game(games, hex, clock, store_ok)
       IN  /\ games' = h.table
           /\ resp' = Answer("delete_game", [hex |-> hex], h, 204)
    /\ UNCHANGED <<scores, clock, trav, pure, removed>>

\* POST /scores
CreateScoreRequest(hex, lookup_ok, store_ok) ==
    /\ Len(games) + Len(scores) < MaxLiveRows
    /\ LET h == create_score(scores, games, hex, LiveScoreInput(hex), clock,
                             lookup_ok, store_ok)
       IN  /\ scores' = h.table
           /\ resp' = Answer("create_score",
                             [hex |-> hex, lookup_ok |-> lookup_ok, store_ok |-> store_ok],
                             h, 201)
    /\ UNCHANGED <<games, clock, trav, pure, removed>>

\* GET /scores
ListScoresRequest(hex, q, store_ok) ==
    /\ resp' = Answer("list_scores", q, list_scores(scores, games, hex, q, store_ok), 200)
    /\ UNCHANGED <<games, scores, clock, trav, pure, removed>>

\* GET /scores/:id
GetScoreRequest(id, store_ok) ==
    /\ resp' = Answer("get_score", [id |-> id], get_score(scores, games, id, store_ok), 200)
    /\ UNCHANGED <<games, scores, clock, trav, pure, removed>>

\* PUT /scores/:id
UpdateScoreRequest(id, store_ok) ==
    /\ LET h == update_score(scores, id, LiveScoreUpdate, store_ok)
       IN  /\ scores' = h.table
           /\ resp' = Answer("update_score", [id |-> id], h, 200)
    /\ UNCHANGED <<games, clock, trav, pure, removed>>

\* DELETE /scores/:id
DeleteScoreRequest(id, store_ok) ==
    /\ LET h == delete_score(scores, id, clock, store_ok)
       IN  /\ scores' = h.table
           /\ resp' = Answer("delete_score", [id |-> id], h, 204)
    /\ UNCHANGED <<games, clock, trav, pure, removed>>

NextHandlers ==
    \/ \E hex \in LiveHexIds, ok \in BOOLEAN : CreateGameRequest(hex, ok)
    \/ \E p \in GameListParams, ok \in BOOLEAN : ListGamesRequest(p, ok)
    \/ \E hex \in LiveHexIds, ok \in BOOLEAN : GetGameRequest(hex, ok)
    \/ \E hex \in LiveHexIds, ok \in BOOLEAN : UpdateGameRequest(hex, ok)
    \/ \E hex \in LiveHexIds, ok \in BOOLEAN : DeleteGameRequest(hex, ok)
    \/ \E hex \in LiveHexIds, ok1 \in BOOLEAN, ok2 \in BOOLEAN :
          CreateScoreRequest(hex, ok1, ok2)
    \/ \E q \in ScoreListQueries, ok \in BOOLEAN : ListScoresRequest(HexA, q, ok)
    \/ \E id \in LiveIds, ok \in BOOLEAN : GetScoreRequest(id, ok)
    \/ \E id \in LiveIds, ok \in BOOLEAN : UpdateScoreRequest(id, ok)
    \/ \E id \in LiveIds, ok \in BOOLEAN : DeleteScoreRequest(id, ok)

\* the handlers, called in any order on a store that may fail
SpecHandlers == Init /\ [][NextHandlers]_vars

(***************************************************************************)
(* Malformed cursors.                                                      *)
(***************************************************************************)
\* the last request was a list request whose cursor is not a cursor of that
\* list
MalformedCursorRequest ==
    \/ /\ resp.op = "list_games"
       /\ resp.arg.cursor.some
       /\ resp.arg.cursor.val \in MalformedGameTokens
    \/ /\ resp.op = "list_scores"
       /\ resp.arg.cursor.some
       /\ resp.arg.cursor.val \in MalformedScoreTokens

\* C11: a list request whose cursor does not decode (not base64, not UTF-8,
\* JSON of another shape) or, for games, whose created_at is no RFC 3339
\* timestamp is answered with a validation error and no page, and no query
\* has been sent to the store, whether the store works or not
C11_MalformedCursorRejected ==
    MalformedCursorRequest =>
        /\ resp.status = "ValidationError"
        /\ resp.code = 422
        /\ resp.data = NoData
        /\ resp.queries = 0

\* a game list whose cursor has a created_at that is no timestamp was
\* refused while the store held a visible game
C11_Witness ==
    /\ resp.op = "list_games"
    /\ resp.arg.cursor = Some(TokenBadDate)
    /\ resp.status = "ValidationError"
    /\ \E i \in 1..Len(games) : games[i].deleted_at = NULL

\* the last request was a list request, with the default sort, whose cursor
\* no decoder accepts
UndecodableCursorRequest ==
    /\ resp.op \in {"list_games", "list_scores"}
    /\ resp.arg.cursor.some
    /\ resp.arg.cursor.val \in UndecodableTokens
    /\ resp.op = "list_scores" => ~resp.arg.sort_by.some /\ ~resp.arg.order.some

\* the error the client reads when the cursor is not base64
ErrorOfNotBase64 ==
    into_response("ValidationError",
                  game_list(<<>>, PaginationParams(Some(TokenNotBase64), None)).data).error

\* C12: whatever the step in which the decoding of a cursor fails (base64,
\* UTF-8, JSON structure), the client reads one and the same error
C12_DecodeErrorOpaque ==
    UndecodableCursorRequest => resp.error = ErrorOfNotBase64

\* the error of an undecodable cursor is a validation error whose text
\* begins with "Invalid cursor"
DecodeErrorIsInvalidCursor ==
    UndecodableCursorRequest =>
        /\ resp.status = "ValidationError"
        /\ resp.error[1] = "Invalid cursor"

(***************************************************************************)
(* The fields of a page.                                                   *)
(***************************************************************************)
\* the last row of the page the traversal holds
LastRetained == trav.page.data[Len(trav.page.data)]

\* the text denotes the value of the row's column for the sort field
SortValueDenotes(text, row, field) ==
    CASE field = "Score" -> LooksNumeric(text) /\ NumericValue(text) = row.score_val
      [] field = "Date" ->
            ParseFromRfc3339(text).ok /\ ParseFromRfc3339(text).val = row.submitted_at
      [] field = "UserName" -> text = row.user_name

\* the sort field of a request: the one it names, the score otherwise
ActiveSortField(sort) == IF sort.sort_by.some THEN sort.sort_by.val ELSE "Score"

\* the next_cursor of a score page names the last row kept and its value of
\* the active sort field
ScoreNextCursorOfLastRetained(c) ==
    /\ c.ok
    /\ c.val.id = LastRetained.id
    /\ SortValueDenotes(c.val.sort_value, LastRetained, ActiveSortField(trav.sort))

\* the next_cursor of a game page names the last game kept
GameNextCursorOfLastRetained(c) ==
    /\ c.ok
    /\ c.val.hex_id = LastRetained.hex_id
    /\ ParseFromRfc3339(c.val.created_at).ok
    /\ ParseFromRfc3339(c.val.created_at).val = LastRetained.created_at

\* C13: the next_cursor of a page with has_more decodes to the id of the last
\* row kept and the text of that row's column for the sort field of the
\* request; for games, to the hex_id and created_at of the last game kept
C13_NextCursorOfLastRetained ==
    (trav.phase # "idle" /\ trav.phase # "failed" /\ trav.page.has_more) =>
        /\ trav.page.next_cursor.some
        /\ trav.kind = "scores" =>
              ScoreNextCursorOfLastRetained(decode_score_cursor(trav.page.next_cursor.val))
        /\ trav.kind = "games" =>
              GameNextCursorOfLastRetained(decode_game_cursor(trav.page.next_cursor.val))

\* a page of one score, sorted by user_name, with a probe row of another
\* user_name and another score behind it
C13_Witness ==
    /\ trav.kind = "scores"
    /\ trav.pages = 1
    /\ trav.page.has_more
    /\ trav.sort.sort_by = Some("UserName")
    /\ Len(trav.page.data) = 1
    /\ \E i \in 1..Len(scores) :
          /\ scores[i].user_name # LastRetained.user_name
          /\ scores[i].score_val # LastRetained.score_val

\* the limit a request gets: its own from 1 to 100, 100 beyond, 25 without
ClampedLimit(limit) ==
    IF ~limit.some THEN 25
    ELSE IF limit.val >= 1 /\ limit.val <= 100 THEN limit.val
    ELSE 100

\* the limit of the last list request, as the handler parsed it
RequestedLimit ==
    IF resp.op = "list_scores" THEN ParsePaginationParams(resp.arg).val.limit
    ELSE resp.arg.limit

\* C14: in every page a list returns, current_cursor is the cursor of the
\* request as it was sent (None without one), page_size is the clamped
\* limit and total_returned is the number of rows in data
C14_PageEchoesRequest ==
    (resp.op \in {"list_games", "list_scores"} /\ resp.status = "Ok") =>
        /\ resp.data.current_cursor = resp.arg.cursor
        /\ resp.data.page_size = ClampedLimit(RequestedLimit)
        /\ resp.data.total_returned = Len(resp.data.data)

\* a score list with a cursor returned a page of one row
C14_Witness ==
    /\ resp.op = "list_scores"
    /\ resp.status = "Ok"
    /\ resp.arg.cursor = Some(TokenOfScore)
    /\ resp.data.current_cursor = Some(TokenOfScore)
    /\ resp.data.total_returned = 1

\* a score list with the limit 101 returned a page of size 100
LimitAboveMaximumListed ==
    /\ resp.op = "list_scores"
    /\ resp.status = "Ok"
    /\ resp.arg.limit = Some(<<49, 48, 49>>)
    /\ resp.data.page_size = 100

(***************************************************************************)
(* A traversal of the scores of one game while other callers create and    *)
(* soft-delete scores between its page requests.                           *)
(***************************************************************************)
\* ScoreRepository::create by another caller, between two pages
ConcurrentScoreCreate(create_data) ==
    /\ trav.phase = "paging"
    /\ trav.kind = "scores"
    /\ Len(scores) < MaxScores
    /\ scores' = score_create(scores, create_data, clock).table
    /\ UNCHANGED <<games, clock, resp, trav, pure, removed>>

\* ScoreRepository::soft_delete by another caller, between two pages; the
\* row may be the one the cursor was made from
ConcurrentScoreSoftDelete(id) ==
    /\ trav.phase = "paging"
    /\ trav.kind = "scores"
    /\ id <= Len(scores)
    /\ scores[id].deleted_at = NULL
    /\ scores' = score_soft_delete(scores, id, clock).table
    /\ UNCHANGED <<games, clock, resp, trav, pure, removed>>

NextScorePagesLive ==
    \/ SnapshotTick
    \/ \E d \in SnapshotScoreInputs : SnapshotScoreCreate(d)
    \/ SnapshotScoreSoftDelete
    \/ \E sort \in SortSpecs, limit \in PageLimits : ScoreListFirst(HexA, sort, limit)
    \/ ScoreListNext
    \/ \E d \in SnapshotScoreInputs : ConcurrentScoreCreate(d)
    \/ \E id \in 1..MaxScores : ConcurrentScoreSoftDelete(id)

\* the pages of the scores of one game, on a store that changes between them
SpecScorePagesLive == Init /\ [][NextScorePagesLive]_vars

\* the ids of the scores of the listed game that were in the store when the
\* traversal began and are visible now: no restore happens, so they were
\* visible all along, and no update happens, so they kept their sort keys
StayedVisible ==
    {scores[i].id : i \in {j \in 1..Len(scores) :
        /\ j <= trav.start
        /\ scores[j].game_hex_id = trav.hex
        /\ ScoreReadable(games, scores[j])}}

\* how many pages returned the row id
TimesSeen(id) == Cardinality({i \in 1..Len(trav.seen) : trav.seen[i] = id})

\* the traversal returned no row twice, and once it is over it has returned
\* every row that stayed visible
TraversalSound ==
    /\ NoRepeat(trav.seen)
    /\ trav.phase = "done" => \A id \in StayedVisible : TimesSeen(id) = 1

\* C15: a traversal of scores, with creates and soft-deletes of rows by
\* others between its pages (the row of the cursor included), returns every
\* row that stays visible and keeps its sort key exactly once, and no row
\* twice
C15_ConcurrentTraversal ==
    (trav.kind = "scores" /\ trav.phase # "failed") => TraversalSound

\* the same for the sort fields score and user_name
ConcurrentTraversalExceptDate ==
    (trav.kind = "scores" /\ trav.phase # "failed" /\ get_sort_field(trav.sort) # "Date")
        => TraversalSound

\* a traversal by score or user_name came to its end after the row its cursor
\* was made from was soft-deleted and another row was created
CursorRowRemovedMidway ==
    /\ trav.kind = "scores"
    /\ trav.phase = "done"
    /\ get_sort_field(trav.sort) # "Date"
    /\ trav.pages >= 2
    /\ Len(scores) > trav.start
    /\ \E i \in 1..Len(trav.seen) : scores[trav.seen[i]].deleted_at # NULL
    /\ StayedVisible # {}

(***************************************************************************)
(* Two clients list at the same time: one walks the pages, the other sends *)
(* list requests of its own, with the cursors the first has sent or        *)
(* received.  The store holds up to MaxLiveRows rows and is left alone     *)
(* once the first page is asked for.                                       *)
(***************************************************************************)
RoomForRow == Len(games) + Len(scores) < MaxLiveRows

\* the cursors in flight: none, the one of the walker's last request and the
\* one it received
CursorsInFlight == {None, trav.request, trav.page.next_cursor}

\* the answer r to the other client's request arg for games; the store after
\* it is the one the list leaves
GameListAnswered(arg, r) ==
    /\ resp' = Resp("game_list_again", arg, r)
    /\ games' = r.table
    /\ UNCHANGED <<scores, clock, trav, pure, removed>>

\* GameRepository::list for the other client
GameListAgain(c) ==
    /\ trav.kind = "games"
    /\ trav.phase \in {"paging", "done"}
    /\ GameListAnswered([cursor |-> c, limit |-> trav.limit],
                        game_list(games, PaginationParams(c, trav.limit)))

\* the answer r to the other client's request arg for scores
ScoreListAnswered(arg, r) ==
    /\ resp' = Resp("score_list_again", arg, r)
    /\ scores' = r.table
    /\ UNCHANGED <<games, clock, trav, pure, removed>>

\* ScoreRepository::list_by_game for the other client
ScoreListAgain(c) ==
    /\ trav.kind = "scores"
    /\ trav.phase \in {"paging", "done"}
    /\ ScoreListAnswered([cursor |-> c, limit |-> trav.limit],
                         score_list_by_game(scores, games, trav.hex,
                                            PaginationParams(c, trav.limit), trav.sort))

NextListsInterleaved ==
    \/ SnapshotTick
    \/ \E hex \in HexIds : RoomForRow /\ SnapshotGameCreate(hex)
    \/ SnapshotGameSoftDelete
    \/ \E d \in SnapshotScoreInputs : RoomForRow /\ SnapshotScoreCreate(d)
    \/ SnapshotScoreSoftDelete
    \/ \E limit \in PageLimits : GameListFirst(limit)
    \/ GameListNext
    \/ \E sort \in SortSpecs, limit \in PageLimits : ScoreListFirst(HexA, sort, limit)
    \/ ScoreListNext
    \/ \E c \in CursorsInFlight : GameListAgain(c)
    \/ \E c \in CursorsInFlight : ScoreListAgain(c)

\* list requests of two clients in any order
SpecListsInterleaved == Init /\ [][NextListsInterleaved]_vars

\* the other client's last request is the walker's last request
SameRequest ==
    /\ resp.op = (IF trav.kind = "games" THEN "game_list_again" ELSE "score_list_again")
    /\ resp.arg.cursor = trav.request
    /\ resp.arg.limit = trav.limit

\* the two clients got the same answer to the same request
SameRequestSameAnswer ==
    (trav.phase \in {"paging", "done"} /\ SameRequest) =>
        /\ resp.status = "Ok"
        /\ resp.data = trav.page

\* a step in which a list answers
ListStep == trav'.pages > trav.pages \/ resp' # resp

CreateWithTakenHexIdRefused ==
    /\ resp.op = "game_create"
    /\ resp.status = "Database"
    /\ \E i \in 1..Len(games) : games[i].hex_id = resp.arg /\ games[i].deleted_at = NULL

(***************************************************************************)
(* Writes of scores: creates and updates with and without score and        *)
(* score_val.                                                              *)
(***************************************************************************)
\* score texts: "5", "10", "-3", and "abc", which is no number
ScoreTexts == {<<53>>, <<49, 48>>, <<45, 51>>, <<97, 98, 99>>}

\* score_val of a request: none, or 7 or 0 given explicitly
ScoreVals == {None, Some(7), Some(0)}

WriteCreates ==
    {CreateScore(HexA, t, v, <<98, 111, 98>>, <<117, 49>>, None) :
        t \in ScoreTexts, v \in ScoreVals}

\* updates of score and score_val, and one of user_name alone
WriteUpdates ==
    {UpdateScore(t, v, None, None, None) :
        t \in {None} \cup {Some(x) : x \in ScoreTexts}, v \in ScoreVals}
    \cup {UpdateScore(None, None, Some(<<65, 108>>), None, None)}

\* ScoreRepository::create
WriteCreate(create_data) ==
    /\ Len(scores) < MaxLiveRows
    /\ LET r == score_create(scores, create_data, clock)
       IN  /\ scores' = r.table
           /\ resp' = Resp("score_create", create_data, r)
    /\ UNCHANGED <<games, clock, trav, pure, removed>>

\* ScoreRepository::update
WriteUpdate(id, update_data) ==
    /\ LET r == score_update(scores, id, update_data)
       IN  /\ scores' = r.table
           /\ resp' = Resp("score_update", [id |-> id, update |-> update_data], r)
    /\ UNCHANGED <<games, clock, trav, pure, removed>>

NextScoreWrites ==
    \/ \E d \in WriteCreates : WriteCreate(d)
    \/ \E id \in LiveIds, u \in WriteUpdates : WriteUpdate(id, u)
    \/ \E id \in LiveIds : ScoreSoftDelete(id)

\* creates, updates and soft deletes of up to MaxLiveRows scores
SpecScoreWrites == Init /\ [][NextScoreWrites]_vars

\* the number a score text is parsed to: its value, 0 when it is no number
ParsedScore(text) == IF LooksNumeric(text) THEN NumericValue(text) ELSE 0

\* what a write with the fields score and score_val leaves in a row that
\* held old_score and old_val
WrittenAs(row, score, score_val, old_score, old_val) ==
    /\ row.score = (IF score.some THEN score.val ELSE old_score)
    /\ row.score_val = (IF score_val.some THEN score_val.val
                        ELSE IF score.some THEN ParsedScore(score.val)
                        ELSE old_val)

\* the step created a row as its request says
CreateWrites ==
    (resp'.op = "score_create" /\ resp'.status = "Ok") =>
        /\ Len(scores') = Len(scores) + 1
        /\ WrittenAs(scores'[Len(scores')], Some(resp'.arg.score), resp'.arg.score_val,
                     <<>>, 0)

\* the step updated a row as its request says and left the other rows
UpdateWrites ==
    (resp'.op = "score_update" /\ resp'.status = "Ok") =>
        /\ WrittenAs(scores'[resp'.arg.id], resp'.arg.update.score,
                     resp'.arg.update.score_val,
                     scores[resp'.arg.id].score, scores[resp'.arg.id].score_val)
        /\ resp'.data = scores'[resp'.arg.id]
        /\ \A i \in 1..Len(scores) : i # resp'.arg.id => scores'[i] = scores[i]

\* C18: a create or update with a score and no score_val stores the value
\* parsed from the score (0 when it is no number), an explicit score_val is
\* stored as given, and an update with neither leaves score and score_val as
\* they were: score_val is the parsed score unless the last write of either
\* gave score_val explicitly
C18_ScoreValFollowsScore ==
    [][(resp' # resp) => (CreateWrites /\ UpdateWrites)]_vars

\* a score was updated with the score "abc" alone and its score_val is now
\* 0, next to a score whose score_val was given as 7
C18_Witness ==
    /\ resp.op = "score_update"
    /\ resp.status = "Ok"
    /\ resp.arg.update.score = Some(<<97, 98, 99>>)
    /\ ~resp.arg.update.score_val.some
    /\ resp.data.score_val = 0
    /\ \E i \in 1..Len(scores) : i # resp.arg.id /\ scores[i].score_val = 7

(***************************************************************************)
(* Unknown sort keys and failures of the store.                            *)
(***************************************************************************)
\* the last request was a score list whose sort_by or order is not one of
\* the names the API knows
UnknownSortRequest ==
    /\ resp.op = "list_scores"
    /\ \/ resp.arg.sort_by.some /\ resp.arg.sort_by.val \notin {"score", "date", "user_name"}
       \/ resp.arg.order.some /\ resp.arg.order.val \notin {"asc", "desc"}

\* the errors a client reads when the cursor of a score list is malformed
MalformedCursorErrors ==
    {into_response("ValidationError",
                   score_list_by_game(<<>>, <<>>, HexA, PaginationParams(Some(t), None),
                                      ScoreSortParams(None, None)).data).error :
        t \in MalformedScoreTokens}

StoreFailed ==
    /\ resp.op \in {"create_game", "list_games", "get_game", "update_game", "delete_game",
                    "create_score", "list_scores", "get_score", "update_score",
                    "delete_score"}
    /\ resp.failed > 0

\* the queries a request has sent when the one that failed was its last
QueriesUntilFailure ==
    IF resp.op = "create_score" /\ resp.arg.lookup_ok THEN 2 ELSE 1

\* the client is told of an internal error in the fixed words, and nothing of
\* the store's error
OpaqueInternalError ==
    /\ resp.status = "Database"
    /\ resp.code = 500
    /\ resp.error = <<"Internal server error">>
    /\ \A i \in 1..Len(resp.error) : resp.error[i] # StoreErrorDetail
    /\ resp.data = NoData

\* C20: when a query of the store fails the request sends no query after it
\* (a list request sends one at most), the failure reaches the handler as
\* ApiError::Database, and the client receives the internal error with the
\* message "Internal server error" and no detail of the store's error
C20_StoreFailureOpaque ==
    /\ StoreFailed =>
          /\ resp.failed = 1
          /\ resp.queries = QueriesUntilFailure
          /\ OpaqueInternalError
    /\ resp.op \in {"list_games", "list_scores"} => resp.queries <= 1

\* the same for every request but a score creation whose lookup of the game
\* is the query that fails
StoreFailureOpaqueExceptLookup ==
    /\ (StoreFailed /\ ~(resp.op = "create_score" /\ ~resp.arg.lookup_ok)) =>
          /\ resp.failed = 1
          /\ resp.queries = QueriesUntilFailure
          /\ OpaqueInternalError
    /\ resp.op \in {"list_games", "list_scores"} => resp.queries <= 1

\* a score creation for a visible game whose lookup failed in the store was
\* answered with 404 "Not found"
LookupFailureAnsweredNotFound ==
    /\ resp.op = "create_score"
    /\ ~resp.arg.lookup_ok
    /\ resp.failed = 1
    /\ resp.queries = 1
    /\ game_get_by_hex_id(games, resp.arg.hex).status = "Ok"
    /\ resp.status = "NotFound"
    /\ resp.code = 404
    /\ resp.error = <<"Not found">>

\* a page request met a failing store and was answered with the internal
\* error after its one query
ListFailureAnsweredOpaque ==
    /\ resp.op \in {"list_games", "list_scores"}
    /\ StoreFailed
    /\ resp.queries = 1
    /\ OpaqueInternalError


(***************************************************************************)
(* The API key (src/src/auth.rs) and the routes it protects                *)
(* (src/src/lib.rs).                                                       *)
(***************************************************************************)
\* HeaderValue::to_str: the bytes are visible ASCII or tabs
IsVisibleAscii(v) == \A i \in 1..Len(v) : (v[i] >= 32 /\ v[i] < 127) \/ v[i] = 9

\* ApiKeyAuth::extract_api_key_from_headers, of the value of the header
\* leadr-api-key if the request has one
extract_api_key_from_headers(header) ==
    IF header.some /\ IsVisibleAscii(header.val) THEN Some(header.val) ELSE None

\* a comparison that stops at the end of the shorter key
validate_key_PrefixAccepted(api_key, provided_key) ==
    IF IsBlank(provided_key) \/ IsBlank(api_key) THEN FALSE
    ELSE \A i \in 1..(IF Len(provided_key) < Len(api_key) THEN Len(provided_key)
                      ELSE Len(api_key)) : provided_key[i] = api_key[i]

\* ApiKeyAuth::validate_key: the fold over the zipped bytes is 0 when every
\* pair of bytes is equal
validate_key(api_key, provided_key) ==
    IF IsBlank(provided_key) \/ IsBlank(api_key) THEN FALSE
    ELSE /\ Len(provided_key) = Len(api_key)
         /\ \A i \in 1..(IF Len(provided_key) < Len(api_key) THEN Len(provided_key)
                         ELSE Len(api_key)) : provided_key[i] = api_key[i]

\* the key once LEADR_API_KEY is read and the header extracted
KeyChecked(api_key, provided) ==
    IF ~provided.some THEN 401
    ELSE IF ~validate_key(api_key, provided.val) THEN 401
    ELSE 0

\* api_key_middleware: the status it answers with, or 0 when it runs the
\* handler; env is LEADR_API_KEY if it is set
api_key_middleware(header, env) ==
    IF ~env.some THEN 500
    ELSE KeyChecked(env.val, extract_api_key_from_headers(header))

\* handlers::export::export_data: a row for every score of every game and
\* one for every game without scores, soft-deleted rows included
export_data(gs, ss) ==
    {<<gs[i].hex_id, ss[j].id>> :
        <<i, j>> \in {p \in (1..Len(gs)) \X (1..Len(ss)) :
                        ss[p[2]].game_hex_id = gs[p[1]].hex_id}}
    \cup {<<gs[i].hex_id, 0>> :
            i \in {k \in 1..Len(gs) : \A j \in 1..Len(ss) : ss[j].game_hex_id # gs[k].hex_id}}

\* the routes behind api_key_middleware
ProtectedRoutes ==
    {"GET /games", "POST /games", "GET /games/:hex_id", "PUT /games/:hex_id",
     "DELETE /games/:hex_id", "GET /scores", "POST /scores", "GET /scores/:id",
     "PUT /scores/:id", "DELETE /scores/:id", "GET /export"}

\* what a handler of the game table leaves and answers
GameHandled(h, ok_code, ss) ==
    [games |-> h.table, scores |-> ss,
     code |-> IF h.status = "Ok" THEN ok_code ELSE into_response(h.status, h.data).code,
     data |-> NoData]

\* what a handler of the score table leaves and answers
ScoreHandled(h, ok_code, gs) ==
    [games |-> gs, scores |-> h.table,
     code |-> IF h.status = "Ok" THEN ok_code ELSE into_response(h.status, h.data).code,
     data |-> NoData]

\* create_app: the handler of each protected route, for the game hex and
\* the score id of the request
RouteHandler(route, gs, ss, hex, id, now) ==
    CASE route = "GET /games" -> GameHandled(list_games(gs, WholeList, TRUE), 200, ss)
      [] route = "POST /games" -> GameHandled(create_game(gs, NameA, hex, now, TRUE), 201, ss)
      [] route = "GET /games/:hex_id" -> GameHandled(get_game(gs, hex, TRUE), 200, ss)
      [] route = "PUT /games/:hex_id" ->
            GameHandled(update_game(gs, hex, NameB, now, TRUE), 200, ss)
      [] route = "DELETE /games/:hex_id" ->
            GameHandled(delete_game(gs, hex, now, TRUE), 204, ss)
      [] route = "GET /scores" ->
            ScoreHandled(list_scores(ss, gs, hex, ScoreQuery(None, None, None, None), TRUE),
                         200, gs)
      [] route = "POST /scores" ->
            ScoreHandled(create_score(ss, gs, hex, LiveScoreInput(hex), now, TRUE, TRUE),
                         201, gs)
      [] route = "GET /scores/:id" -> ScoreHandled(get_score(ss, gs, id, TRUE), 200, gs)
      [] route = "PUT /scores/:id" ->
            ScoreHandled(update_score(ss, id, LiveScoreUpdate, TRUE), 200, gs)
      [] route = "DELETE /scores/:id" ->
            ScoreHandled(delete_score(ss, id, now, TRUE), 204, gs)
      [] route = "GET /export" ->
            [games |-> gs, scores |-> ss, code |-> 200, data |-> export_data(gs, ss)]

\* the key "k1" and the values of LEADR_API_KEY: unset, blank, "k1", and
\* "k1" followed by a space
KeyA == <<107, 49>>
KeyEnvs == {None, Some(<<32>>), Some(KeyA), Some(<<107, 49, 32>>)}

\* the header leadr-api-key of a request: missing, empty, blank, "k1", "K1",
\* "k2", "k", "k1 ", " k1", "k12" and bytes that are no text
KeyHeaders ==
    {None} \cup
    {Some(v) : v \in {<<>>, <<32, 32>>, KeyA, <<75, 49>>, <<107, 50>>, <<107>>,
                      <<107, 49, 32>>, <<32, 107, 49>>, <<107, 49, 50>>, <<200, 49>>}}

\* the answer to a request: ran tells whether its handler was run
Served(op, route, header, env, code, ran, data) ==
    [op |-> op, arg |-> [route |-> route, header |-> header, env |-> env],
     status |-> IF ran THEN "handled" ELSE "refused", code |-> code, ran |-> ran,
     data |-> data]

\* the handler has run and left out.games and out.scores
HandlerRan(route, header, env, out) ==
    /\ games' = out.games
    /\ scores' = out.scores
    /\ resp' = Served("protected", route, header, env, out.code, TRUE, out.data)

\* the middleware answered by itself
HandlerSkipped(route, header, env, code) ==
    /\ UNCHANGED <<games, scores>>
    /\ resp' = Served("protected", route, header, env, code, FALSE, NoData)

\* a request to a route of protected_routes
ProtectedRequest(route, header, env, hex, id) ==
    /\ route \in {"POST /games", "POST /scores"} => Len(games) + Len(scores) < MaxLiveRows
    /\ IF api_key_middleware(header, env) = 0
       THEN HandlerRan(route, header, env, RouteHandler(route, games, scores, hex, id, clock))
       ELSE HandlerSkipped(route, header, env, api_key_middleware(header, env))
    /\ UNCHANGED <<clock, trav, pure, removed>>

\* GET /health, a route of public_routes: health_check sends SELECT 1
HealthRequest(header, env, store_ok) ==
    /\ resp' = Served("health", "GET /health", header, env,
                      IF store_ok THEN 200 ELSE 503, TRUE, NoData)
    /\ UNCHANGED <<games, scores, clock, trav, pure, removed>>

NextAuth ==
    \/ \E route \in ProtectedRoutes, header \in KeyHeaders, env \in KeyEnvs,
          hex \in {HexA}, id \in {1} :
          ProtectedRequest(route, header, env, hex, id)
    \/ \E header \in KeyHeaders, env \in KeyEnvs, ok \in BOOLEAN :
          HealthRequest(header, env, ok)

\* requests with and without the key, in any order
SpecAuth == Init /\ [][NextAuth]_vars

\* the request's header leadr-api-key is missing, is no text, is blank, or
\* differs from the key in length or in a byte
KeyNotGiven(header, key) ==
    \/ ~header.some
    \/ ~IsVisibleAscii(header.val)
    \/ \A i \in 1..Len(header.val) : header.val[i] \in {9, 32}
    \/ Len(header.val) # Len(key)
    \/ \E i \in 1..Len(key) : header.val[i] # key[i]

\* LEADR_API_KEY is set and not blank
KeyConfigured(env) == env.some /\ \E i \in 1..Len(env.val) : env.val[i] \notin {9, 10, 13, 32}

\* the step is a request to a protected route without the configured key
DeniedRequest ==
    /\ resp'.op = "protected"
    /\ KeyConfigured(resp'.arg.env)
    /\ KeyNotGiven(resp'.arg.header, resp'.arg.env.val)

\* C21: a request to a protected route whose leadr-api-key header is
\* missing, blank or not byte for byte the non-blank LEADR_API_KEY is
\* answered 401 without its handler being run and leaves the store as it
\* was; GET /health is served by its handler whatever the key
C21_KeyRequired ==
    [][/\ DeniedRequest =>
            /\ resp'.code = 401
            /\ ~resp'.ran
            /\ games' = games
            /\ scores' = scores
       /\ resp'.op = "health" => (resp'.ran /\ resp'.code \in {200, 503})]_vars

\* POST /scores for a visible game was refused with 401 for the key "K1"
\* where "k1" is configured
C21_Witness ==
    /\ resp.op = "protected"
    /\ resp.arg.route = "POST /scores"
    /\ resp.arg.env = Some(KeyA)
    /\ resp.arg.header = Some(<<75, 49>>)
    /\ resp.code = 401
    /\ game_get_by_hex_id(games, HexA).status = "Ok"

\* every protected route has run its handler for the configured key
KeyGivenRuns ==
    (resp.op = "protected" /\ KeyConfigured(resp.arg.env)
        /\ ~KeyNotGiven(resp.arg.header, resp.arg.env.val)) => resp.ran

\* the export was served with the configured key and held a score
ExportServedWithKey ==
    /\ resp.op = "protected"
    /\ resp.arg.route = "GET /export"
    /\ resp.ran
    /\ resp.code = 200
    /\ <<HexA, 1>> \in resp.data


(***************************************************************************)
(* The keyset predicate of the score list.                                 *)
(***************************************************************************)
\* the row's value of the sort field against the value the text v denotes:
\* -1, 0 or 1, and 2 when v denotes no value of the field
ValueAgainstCursor(row, v, field) ==
    CASE field = "Score" ->
            IF LooksNumeric(v) THEN IntCmp(row.score_val, NumericValue(v)) ELSE 2
      [] field = "Date" ->
            IF ParseFromRfc3339(v).ok
            THEN IntCmp(row.submitted_at, ParseFromRfc3339(v).val) ELSE 2
      [] field = "UserName" -> TextCmp(row.user_name, v)

\* the row is strictly after the position (cursor.id, cursor.sort_value) in
\* the ordering of sort
StrictlyAfter(row, cursor, sort) ==
    \/ /\ get_sort_order(sort) = "Ascending"
       /\ ValueAgainstCursor(row, cursor.sort_value, get_sort_field(sort)) = 1
    \/ /\ get_sort_order(sort) = "Descending"
       /\ ValueAgainstCursor(row, cursor.sort_value, get_sort_field(sort)) = -1
    \/ /\ ValueAgainstCursor(row, cursor.sort_value, get_sort_field(sort)) = 0
       /\ row.id > cursor.id

\* every row of the page the traversal holds is strictly after the cursor c
\* of its request, and none is the row of c
PageAfterCursor(c) ==
    /\ c.ok
    /\ \A i \in 1..Len(trav.page.data) :
          /\ StrictlyAfter(trav.page.data[i], c.val, trav.sort)
          /\ trav.page.data[i].id # c.val.id

\* the page asked for without a cursor starts at the first row of the
\* ordering
PageFromStart ==
    LET order == DefinedScoreOrder(scores, trav.hex, trav.sort)
    IN  /\ Len(trav.page.data) = 0 <=> Len(order) = 0
        /\ Len(order) > 0 => trav.page.data[1].id = order[1]

\* the traversal holds a page of scores
ScorePageHeld == trav.kind = "scores" /\ trav.phase \in {"paging", "done"}

\* C22: every row list_by_game returns for a cursor (i, v) is strictly after
\* it: its sort-field value is beyond v in the direction of the sort, or
\* equals v with an id above i; the cursor's own row is not returned; and
\* without a cursor the page starts at the first row of the ordering
C22_RowsAfterCursor ==
    ScorePageHeld =>
        IF trav.request.some
        THEN PageAfterCursor(decode_score_cursor(trav.request.val))
        ELSE PageFromStart

\* the same, for the sort fields score and user_name only
RowsAfterCursorExceptDate ==
    (ScorePageHeld /\ get_sort_field(trav.sort) # "Date") =>
        IF trav.request.some
        THEN PageAfterCursor(decode_score_cursor(trav.request.val))
        ELSE PageFromStart

\* the first page, sorted by date, starts at the first row of the ordering
\* when there is no cursor
DatePageFromStart ==
    (ScorePageHeld /\ ~trav.request.some) => PageFromStart

\* a page sorted by date holds the very row its cursor was derived from
CursorRowReturnedAgain ==
    /\ ScorePageHeld
    /\ get_sort_field(trav.sort) = "Date"
    /\ trav.request.some
    /\ \E i \in 1..Len(trav.page.data) :
          trav.page.data[i].id = decode_score_cursor(trav.request.val).val.id

\* a page sorted by score or user_name follows a cursor whose value a later
\* row shares
TiedRowAfterCursor ==
    /\ ScorePageHeld
    /\ get_sort_field(trav.sort) # "Date"
    /\ trav.request.some
    /\ \E i \in 1..Len(trav.page.data) :
          ValueAgainstCursor(trav.page.data[i],
                             decode_score_cursor(trav.request.val).val.sort_value,
                             get_sort_field(trav.sort)) = 0


(***************************************************************************)
(* The sort_value of a date cursor against the stored submitted_at.        *)
(***************************************************************************)
\* the traversal holds a page of scores with a next_cursor
NextCursorHeld == ScorePageHeld /\ trav.page.has_more /\ trav.page.next_cursor.some

\* the sort_value of the next_cursor the traversal holds
NextSortValue == decode_score_cursor(trav.page.next_cursor.val).val.sort_value

\* in the next query, the column of every stored row compares with the
\* sort_value as the row compares with the row the cursor was derived from
ComparesAsStored(v, field) ==
    \A i \in 1..Len(scores) :
        SortFieldCmp(scores[i], field, v) = ColumnCmp(scores[i], LastRetained, field)

\* C23: sorted by date, the sort_value of the next cursor is the stored text
\* of submitted_at of its row, so that =, < and > against it in the next
\* query single out the rows of the same instant, the earlier and the later
\* ones
C23_DateSortValueAsStored ==
    (NextCursorHeld /\ get_sort_field(trav.sort) = "Date") =>
        /\ NextSortValue = NaiveFormat(LastRetained.submitted_at)
        /\ ComparesAsStored(NextSortValue, "submitted_at")

\* the same for the sort fields score and user_name: the sort_value compares
\* in the next query as the stored value of its row
SortValueAsStoredExceptDate ==
    (NextCursorHeld /\ get_sort_field(trav.sort) # "Date") =>
        ComparesAsStored(NextSortValue, get_cursor_field(trav.sort))

\* a date cursor is RFC 3339 text where the column holds the store's form
DateSortValueIsRfc3339 ==
    (NextCursorHeld /\ get_sort_field(trav.sort) = "Date") =>
        /\ NextSortValue = ToRfc3339(LastRetained.submitted_at)
        /\ \A i \in 1..Len(scores) :
              SortFieldCmp(scores[i], "submitted_at", NextSortValue) # 0

\* a row of the cursor row's day, submitted after it, compares below the
\* date cursor
LaterRowComparesBelow ==
    /\ NextCursorHeld
    /\ get_sort_field(trav.sort) = "Date"
    /\ \E i \in 1..Len(scores) :
          /\ scores[i].submitted_at > LastRetained.submitted_at
          /\ SortFieldCmp(scores[i], "submitted_at", NextSortValue) = -1


(***************************************************************************)
(* The sort spec of a score list: one column and one direction.            *)
(***************************************************************************)
\* the query pieces of a sort spec have been built
SortParamsAnswered == pure # NoData /\ pure.stage = "output" /\ pure.fn = "sort_params"

\* the column of ProbeScore whose value the text is
ColumnOfProbeValue(text) ==
    CASE LooksNumeric(text) /\ NumericValue(text) = ProbeScore.score_val -> "score_val"
      [] ParseFromRfc3339(text).ok /\ ParseFromRfc3339(text).val = ProbeScore.submitted_at ->
            "submitted_at"
      [] text = ProbeScore.user_name -> "user_name"
      [] OTHER -> "none"

\* the column of a sort key, score when the key is absent
ColumnOfSortKey(sort_by) ==
    IF ~sort_by.some THEN "score_val"
    ELSE CASE sort_by.val = "Score" -> "score_val"
           [] sort_by.val = "Date" -> "submitted_at"
           [] sort_by.val = "UserName" -> "user_name"

\* the direction of an order, descending when it is absent
DirectionOfOrder(order) ==
    IF order.some /\ order.val = "Ascending" THEN "ASC" ELSE "DESC"

\* C24: for every sort spec the ORDER BY column, get_cursor_field, the
\* column of the keyset predicate and the column whose value from_score
\* stores are one column, that of the sort key (score_val when absent), and
\* the operator is > exactly for ASC and < exactly for DESC (the direction
\* when absent)
C24_OneColumnOneDirection ==
    SortParamsAnswered =>
        /\ pure.output.order_field = ColumnOfSortKey(pure.input.sort_by)
        /\ pure.output.sort_field = pure.output.order_field
        /\ ColumnOfProbeValue(pure.output.cursor.sort_value) = pure.output.order_field
        /\ pure.output.order_field \in {"score_val", "submitted_at", "user_name"}
        /\ pure.output.order_dir = DirectionOfOrder(pure.input.order)
        /\ pure.output.comparison_op = ">" <=> pure.output.order_dir = "ASC"
        /\ pure.output.comparison_op = "<" <=> pure.output.order_dir = "DESC"

\* the sort spec of a request without sort_by and order has been built:
\* score_val, DESC and <
C24_Witness ==
    /\ SortParamsAnswered
    /\ pure.input = ScoreSortParams(None, None)
    /\ pure.output.order_field = "score_val"
    /\ pure.output.order_dir = "DESC"
    /\ pure.output.comparison_op = "<"
    /\ pure.output.cursor.sort_value = <<52, 50>>

\* the pieces of an ascending sort by date have been built
AscendingDateBuilt ==
    /\ SortParamsAnswered
    /\ pure.input = ScoreSortParams(Some("Date"), Some("Ascending"))
    /\ pure.output.sort_field = "submitted_at"
    /\ pure.output.comparison_op = ">"


(***************************************************************************)
(* from_query_results on its own.                                          *)
(***************************************************************************)
\* from_query_results has answered
QueryResultsAnswered ==
    pure # NoData /\ pure.stage = "output" /\ pure.fn = "from_query_results"

\* C25: given at most limit + 1 rows, from_query_results returns at most
\* limit rows, the first ones given; has_more tells whether more than limit
\* rows were given; next_cursor is None without has_more, and also when no
\* row is kept (limit 0), where has_more is true; otherwise it is the cursor
\* of the last row kept
C25_FromQueryResults ==
    (QueryResultsAnswered /\ Len(pure.input.data) <= pure.input.requested_limit + 1) =>
        /\ Len(pure.output.data) <= pure.input.requested_limit
        /\ pure.output.data = SubSeq(pure.input.data, 1, Len(pure.output.data))
        /\ pure.output.has_more <=> Len(pure.input.data) > pure.input.requested_limit
        /\ ~pure.output.has_more => pure.output.next_cursor = None
        /\ ~pure.output.has_more => pure.output.data = pure.input.data
        /\ Len(pure.output.data) = 0 => pure.output.next_cursor = None
        /\ (pure.output.has_more /\ Len(pure.output.data) > 0) =>
              pure.output.next_cursor =
                  Some(<<48 + pure.output.data[Len(pure.output.data)]>>)

\* one row was given for the limit 0: no row is kept, has_more is true and
\* there is no next_cursor
C25_Witness ==
    /\ QueryResultsAnswered
    /\ pure.input.requested_limit = 0
    /\ Len(pure.input.data) = 1
    /\ pure.output.has_more
    /\ pure.output.data = <<>>
    /\ pure.output.next_cursor = None

\* limit + 1 rows were given for a limit above 0: the probe row is dropped
\* and the cursor is that of the last row kept
ProbeRowDropped ==
    /\ QueryResultsAnswered
    /\ pure.input.requested_limit = 2
    /\ Len(pure.input.data) = 3
    /\ pure.output.data = <<1, 2>>
    /\ pure.output.next_cursor = Some(<<50>>)

\* given limit + 2 rows, from_query_results drops one and returns limit + 1
MoreThanProbeKept ==
    /\ QueryResultsAnswered
    /\ Len(pure.input.data) = pure.input.requested_limit + 2
    /\ Len(pure.output.data) = pure.input.requested_limit + 1


(***************************************************************************)
(* The length of a traversal.                                              *)
(***************************************************************************)
\* the ids of the snapshot in the defined total order of the traversed list
SnapshotOrder ==
    IF trav.kind = "scores" THEN DefinedScoreOrder(scores, trav.hex, trav.sort)
    ELSE Ids(DefinedGameOrder(VisibleGames(games)))

\* max(1, ceil(n / l))
PagesNeeded(n, l) == IF n = 0 THEN 1 ELSE (n + l - 1) \div l

\* after k pages of l rows the traversal has seen the first k * l rows of
\* order, or all of them, and it is done exactly when k pages are all it
\* takes
ProgressAfter(order, l, k) ==
    /\ trav.phase # "failed"
    /\ k <= PagesNeeded(Len(order), l)
    /\ trav.phase = "done" <=> k = PagesNeeded(Len(order), l)
    /\ trav.seen = SubSeq(order, 1, IF k * l < Len(order) THEN k * l ELSE Len(order))

\* C26: on a fixed snapshot of N rows a traversal with limit L advances by a
\* page of the total order with every request, so that no page comes twice,
\* and meets has_more = false with request max(1, ceil(N / L)) exactly
C26_TraversalLength ==
    trav.phase # "idle" =>
        ProgressAfter(SnapshotOrder, get_limit(PaginationParams(None, trav.limit)), trav.pages)

\* the same for every traversal but those of scores sorted by date
TraversalLengthExceptDate ==
    (trav.phase # "idle" /\ ~(trav.kind = "scores" /\ get_sort_field(trav.sort) = "Date")) =>
        ProgressAfter(SnapshotOrder, get_limit(PaginationParams(None, trav.limit)), trav.pages)

\* a traversal by date has asked for more pages than the snapshot has rows
\* and still holds has_more
DateTraversalUnending ==
    /\ trav.kind = "scores"
    /\ get_sort_field(trav.sort) = "Date"
    /\ trav.phase = "paging"
    /\ trav.pages > Len(SnapshotOrder)

\* a traversal of three rows with limit 2 is done after two requests
ThreeRowsTwoPages ==
    /\ trav.phase = "done"
    /\ trav.limit = Some(2)
    /\ Len(SnapshotOrder) = 3
    /\ trav.pages = 2

\* a traversal of two rows with limit 2 is done after one request
ExactlyOnePageOfTwo ==
    /\ trav.phase = "done"
    /\ trav.limit = Some(2)
    /\ Len(SnapshotOrder) = 2
    /\ trav.pages = 1


(***************************************************************************)
(* A traversal of the scores of one game while another caller updates the  *)
(* sort fields of rows between its page requests.                          *)
(***************************************************************************)
\* updates that move a row to the far end of the order: the score "12",
\* above every score created, and the user_name "zed", after every name
MovingUpdates ==
    {UpdateScore(Some(<<49, 50>>), None, None, None, None),
     UpdateScore(None, None, Some(<<122, 101, 100>>), None, None)}

\* ScoreRepository::update by another caller, between two pages
ConcurrentScoreUpdate(id, update_data) ==
    /\ trav.phase = "paging"
    /\ trav.kind = "scores"
    /\ id <= Len(scores)
    /\ scores' = score_update(scores, id, update_data).table
    /\ UNCHANGED <<games, clock, resp, trav, pure, removed>>

\* the sort specs by score and by user_name
MovableSortSpecs == {sort \in SortSpecs : get_sort_field(sort) # "Date"}

NextScorePagesUpdated ==
    \/ \E d \in ScoreInputs(HexA) : SnapshotScoreCreate(d)
    \/ \E sort \in MovableSortSpecs, limit \in PageLimits : ScoreListFirst(HexA, sort, limit)
    \/ ScoreListNext
    \/ \E id \in 1..MaxScores, u \in MovingUpdates : ConcurrentScoreUpdate(id, u)

\* the pages of the scores of one game, on a store whose rows are updated
\* between them
SpecScorePagesUpdated == Init /\ [][NextScorePagesUpdated]_vars

\* the row's value of the traversal's sort field was changed by an update:
\* only updates write the score 12 and the name "zed", and they happen
\* between the pages
SortKeyChanged(row) ==
    CASE get_sort_field(trav.sort) = "Score" -> row.score_val = 12
      [] get_sort_field(trav.sort) = "UserName" -> row.user_name = <<122, 101, 100>>
      [] OTHER -> FALSE

\* the visible scores of the traversed game
TraversedRows == VisibleScores(scores, trav.hex)

\* C27: a traversal by score or user_name is unsafe only against updates of
\* the sort field, and it is unsafe against them: every row returned twice,
\* and every visible row left out when the traversal is over, had its sort
\* field changed between the pages; rows whose sort field stayed are
\* returned exactly once
C27_UnsafeOnlyUnderKeyChange ==
    (trav.kind = "scores" /\ get_sort_field(trav.sort) # "Date") =>
        /\ trav.phase # "failed"
        /\ \A row \in TraversedRows :
              \/ SortKeyChanged(row)
              \/ /\ TimesSeen(row.id) <= 1
                 /\ trav.phase = "done" => TimesSeen(row.id) = 1

\* a row was returned, then updated to another score, and returned again on
\* a later page of the same traversal
C27_Witness ==
    /\ trav.kind = "scores"
    /\ get_sort_field(trav.sort) = "Score"
    /\ \E row \in TraversedRows : SortKeyChanged(row) /\ TimesSeen(row.id) = 2

\* a traversal is over and a visible row, whose user_name was updated before
\* its page came, was never returned
UpdatedRowNeverReturned ==
    /\ trav.kind = "scores"
    /\ get_sort_field(trav.sort) = "UserName"
    /\ trav.phase = "done"
    /\ \E row \in TraversedRows : SortKeyChanged(row) /\ TimesSeen(row.id) = 0

\* a traversal is over and a visible row, whose score was updated before its
\* page came, was never returned
RescoredRowNeverReturned ==
    /\ trav.kind = "scores"
    /\ get_sort_field(trav.sort) = "Score"
    /\ trav.phase = "done"
    /\ \E row \in TraversedRows : SortKeyChanged(row) /\ TimesSeen(row.id) = 0


(***************************************************************************)
(* Writes of games: updates with and without name and description, between *)
(* creates, soft deletes and restores.                                     *)
(***************************************************************************)
\* the description "d"
DescriptionD == <<100>>

\* the fields of an update request: each present or absent
GameUpdates ==
    {[name |-> n, description |-> d] :
        n \in {None, Some(NameB)}, d \in {None, Some(DescriptionD)}}

\* GameRepository::update
GameWriteUpdate(hex, update_data) ==
    /\ LET r == game_update(games, hex, update_data.name, update_data.description, clock)
       IN  /\ games' = r.table
           /\ resp' = Resp("game_update", [hex |-> hex, update |-> update_data], r)
    /\ UNCHANGED <<scores, clock, trav, pure, removed>>

NextGameWrites ==
    \/ Tick
    \/ \E hex \in LiveHexIds : GameCreate(NameA, hex)
    \/ \E hex \in LiveHexIds, u \in GameUpdates : GameWriteUpdate(hex, u)
    \/ \E hex \in LiveHexIds : GameSoftDelete(hex)
    \/ \E hex \in LiveHexIds : GameRestore(hex)

\* the writes of the game repository, in any order
SpecGameWrites == Init /\ [][NextGameWrites]_vars

\* every game of the store is still there with the id, hex_id and
\* created_at it had
GameKeysKept ==
    /\ Len(games') >= Len(games)
    /\ \A i \in 1..Len(games) :
          /\ games'[i].id = games[i].id
          /\ games'[i].hex_id = games[i].hex_id
          /\ games'[i].created_at = games[i].created_at

\* the row after an update of the fields of u at the instant now
GameUpdatedAs(after, before, u, now) ==
    /\ after.name = IF u.name.some THEN u.name.val ELSE before.name
    /\ after.description = IF u.description.some THEN u.description ELSE before.description
    /\ after.updated_at = now
    /\ after.deleted_at = before.deleted_at

\* the step is an update: the visible games of the hex_id take the fields
\* supplied and the instant of the call, every other game stays as it was,
\* and a refused update changes nothing
GameUpdateWrites ==
    (CallStep /\ resp'.op = "game_update") =>
        /\ Len(games') = Len(games)
        /\ resp'.status # "Ok" => games' = games
        /\ resp'.status = "Ok" =>
              \A i \in 1..Len(games) :
                  IF games[i].hex_id = resp'.arg.hex /\ games[i].deleted_at = NULL
                  THEN GameUpdatedAs(games'[i], games[i], resp'.arg.update, clock)
                  ELSE games'[i] = games[i]

\* C28: update changes the name and the description the request supplies,
\* keeps the one it does not supply, and sets updated_at also when it
\* supplies none; no update, soft_delete or restore changes the hex_id or
\* the created_at of a game
C28_GameUpdateFrame == [][GameKeysKept /\ GameUpdateWrites]_vars

\* an update without name and description succeeded on a game that was
\* renamed and described before: both are kept and updated_at is the
\* instant of the update, after created_at
C28_Witness ==
    /\ resp.op = "game_update"
    /\ resp.status = "Ok"
    /\ resp.arg.update = [name |-> None, description |-> None]
    /\ resp.data.name = NameB
    /\ resp.data.description = Some(DescriptionD)
    /\ resp.data.updated_at > resp.data.created_at

\* a game was restored after its soft delete with the hex_id and created_at
\* of its creation and a later updated_at
RestoredWithItsKeys ==
    /\ resp.op = "game_restore"
    /\ resp.status = "Ok"
    /\ resp.data.hex_id = resp.arg
    /\ resp.data.created_at = 0
    /\ resp.data.updated_at = 1


(***************************************************************************)
(* create_score next to delete_game: the handler looks the game up with    *)
(* one query and inserts the score with another, and other requests are    *)
(* served between the two.                                                 *)
(***************************************************************************)
\* create_score has looked the game up and has not yet inserted
LookedUp(hex, lookup) ==
    [op |-> "create_score", arg |-> hex, status |-> "pending", lookup |-> lookup,
     data |-> NoData]

\* create_score up to the answer of GameRepository::get_by_hex_id
CreateScoreLookup(hex) ==
    /\ resp.status # "pending"
    /\ Len(scores) < MaxLiveRows
    /\ validate_user_name(LiveScoreInput(hex).user_name)
    /\ validate_user_id(LiveScoreInput(hex).user_id)
    /\ resp' = LookedUp(hex, Queried(TRUE, game_get_by_hex_id(games, hex), games))
    /\ UNCHANGED <<games, scores, clock, trav, pure, removed>>

\* create_score from the answer of the lookup on: NotFound, or
\* ScoreRepository::create
CreateScoreInsert ==
    /\ resp.status = "pending"
    /\ LET h == CreateScoreFor(scores, LiveScoreInput(resp.arg), clock, resp.lookup, TRUE)
       IN  /\ scores' = h.table
           /\ resp' = Resp("create_score", resp.arg, h)
    /\ UNCHANGED <<games, clock, trav, pure, removed>>

\* POST /games by another client
ConcurrentGameCreate(hex) ==
    /\ Len(games) < MaxLiveRows
    /\ games' = create_game(games, NameA, hex, clock, TRUE).table
    /\ UNCHANGED <<scores, clock, resp, trav, pure, removed>>

\* DELETE /games/:hex_id by another client
ConcurrentGameDelete(hex) ==
    /\ LiveGame(hex)
    /\ games' = delete_game(games, hex, clock, TRUE).table
    /\ UNCHANGED <<scores, clock, resp, trav, pure, removed>>

NextCreateScoreRace ==
    \/ Tick
    \/ \E hex \in LiveHexIds : CreateScoreLookup(hex)
    \/ CreateScoreInsert
    \/ \E hex \in LiveHexIds : ConcurrentGameCreate(hex)
    \/ \E hex \in LiveHexIds : ConcurrentGameDelete(hex)

\* score creations and game deletions of different clients, step by step
SpecCreateScoreRace == Init /\ [][NextCreateScoreRace]_vars

\* the step is the second half of create_score
InsertStep == resp.status = "pending" /\ resp'.status # "pending"

\* C29: when the handler comes to insert, a game that is absent or
\* soft-deleted makes it answer NotFound and store nothing, whatever
\* delete_game did meanwhile: a score row is only ever inserted for a game
\* that is visible at the moment of the insert
C29_NoScoreForHiddenGame ==
    [][/\ (InsertStep /\ ~LiveGame(resp.arg)) =>
              (resp'.status = "NotFound" /\ scores' = scores)
       /\ Len(scores') > Len(scores) => LiveGame(scores'[Len(scores')].game_hex_id)]_vars

\* the same with the game as the lookup found it: a game that was absent or
\* soft-deleted at the lookup gets NotFound and no row, and every row
\* inserted is for a game that was visible at the lookup
NoScoreForGameHiddenAtLookup ==
    [][/\ (InsertStep /\ resp.lookup.status # "Ok") =>
              (resp'.status = "NotFound" /\ scores' = scores)
       /\ Len(scores') > Len(scores) => (InsertStep /\ resp.lookup.status = "Ok")]_vars

\* a score was stored for a game that had been soft-deleted before the
\* instant of the insert
ScoreOfDeletedGameStored ==
    /\ resp.op = "create_score"
    /\ resp.status = "Ok"
    /\ \E i \in 1..Len(games) :
          /\ games[i].hex_id = resp.data.game_hex_id
          /\ games[i].deleted_at # NULL
          /\ games[i].deleted_at < resp.data.submitted_at
    /\ ~LiveGame(resp.data.game_hex_id)

\* a score creation for a soft-deleted game was answered NotFound
DeletedGameAnsweredNotFound ==
    /\ resp.op = "create_score"
    /\ resp.status = "NotFound"
    /\ DeadGame(resp.arg)


(***************************************************************************)
(* soft_delete followed by restore.                                        *)
(***************************************************************************)
\* the step is a successful soft_delete of score resp'.arg: it sets the
\* deleted_at of that row and nothing else
ScoreSoftDeleteFrame ==
    (CallStep /\ resp'.op = "score_soft_delete" /\ resp'.status = "Ok") =>
        /\ scores[resp'.arg].deleted_at = NULL
        /\ scores' = [scores EXCEPT ![resp'.arg].deleted_at = clock]
        /\ games' = games

\* the step is the restore of the score whose soft_delete was the call
\* before: it returns the row without deleted_at and changes nothing else
ScoreRoundTrip ==
    (CallStep /\ resp.op = "score_soft_delete" /\ resp.status = "Ok"
        /\ resp'.op = "score_restore" /\ resp'.arg = resp.arg) =>
        /\ resp'.status = "Ok"
        /\ resp'.data = [scores[resp.arg] EXCEPT !.deleted_at = NULL]
        /\ scores' = [scores EXCEPT ![resp.arg] = resp'.data]
        /\ games' = games

\* the step is a successful soft_delete of game resp'.arg: it sets the
\* deleted_at and updated_at of the one visible game of that hex_id and
\* nothing else
GameSoftDeleteFrame ==
    (CallStep /\ resp'.op = "game_soft_delete" /\ resp'.status = "Ok") =>
        /\ \E i \in 1..Len(games) :
              /\ games[i].hex_id = resp'.arg
              /\ games[i].deleted_at = NULL
              /\ games' = [games EXCEPT ![i].deleted_at = clock, ![i].updated_at = clock]
        /\ scores' = scores

\* the restore of game hex brings back one soft-deleted game of that hex_id,
\* returns it, and changes nothing but its deleted_at and updated_at
OneGameRestored(hex) ==
    /\ resp'.status = "Ok"
    /\ \E i \in 1..Len(games) :
          /\ games[i].hex_id = hex
          /\ games[i].deleted_at # NULL
          /\ games' = [games EXCEPT ![i].deleted_at = NULL, ![i].updated_at = clock]
          /\ resp'.data = games'[i]
    /\ scores' = scores

\* the step is the restore of the game whose soft_delete was the call before
RestoreAfterSoftDelete ==
    /\ CallStep
    /\ resp.op = "game_soft_delete"
    /\ resp.status = "Ok"
    /\ resp'.op = "game_restore"
    /\ resp'.arg = resp.arg

\* C30: soft_delete(x) followed by restore(x) is a round trip: soft_delete
\* changes only deleted_at (and updated_at of a game) of x, and the restore
\* succeeds, returns x with deleted_at unset and every other field (but
\* the updated_at of a game) as before, and changes no other row
C30_SoftDeleteRestoreRoundTrip ==
    [][/\ ScoreSoftDeleteFrame
       /\ ScoreRoundTrip
       /\ GameSoftDeleteFrame
       /\ RestoreAfterSoftDelete => OneGameRestored(resp.arg)]_vars

\* the soft-deleted games of a hex_id
SoftDeletedGames(hex) ==
    {i \in 1..Len(games) : games[i].hex_id = hex /\ games[i].deleted_at # NULL}

\* the same, the game half for games whose hex_id no other soft-deleted game
\* carries
RoundTripOfSingleHexId ==
    [][/\ ScoreSoftDeleteFrame
       /\ ScoreRoundTrip
       /\ GameSoftDeleteFrame
       /\ (RestoreAfterSoftDelete /\ Cardinality(SoftDeletedGames(resp.arg)) = 1) =>
              OneGameRestored(resp.arg)]_vars

\* the restore of the game just soft-deleted was refused: an older
\* soft-deleted game carries its hex_id
RestoreOfTwoRefused ==
    /\ resp.op = "game_restore"
    /\ resp.status # "Ok"
    /\ Cardinality(SoftDeletedGames(resp.arg)) = 2
    /\ \E i \in SoftDeletedGames(resp.arg) : games[i].deleted_at = clock

\* a score came back from its soft delete
ScoreCameBack ==
    /\ resp.op = "score_restore"
    /\ resp.status = "Ok"
    /\ resp.data.deleted_at = NULL
    /\ resp.data.id \in removed.scores_back

\* a game came back from its soft delete with a later updated_at
GameCameBack ==
    /\ resp.op = "game_restore"
    /\ resp.status = "Ok"
    /\ resp.data.deleted_at = NULL
    /\ resp.data.updated_at > resp.data.created_at

====
